---- MODULE Spec2Model ----
(***************************************************************************)
(* The request-dispatch and response-handling pipeline of webreq:          *)
(* WebReq.request, _request, _requestWriter, _responseHandler and          *)
(* _responseFileHandler of lib/webreq.js (0.6.0), with parseResponseBody   *)
(* of lib/utils.js.  The transport (http/https request handles and their   *)
(* responses) and the request-body source stream are the environment.      *)
(***************************************************************************)
EXTENDS Integers, Sequences, FiniteSets, TLC

\* Longest redirect chain the transport serves (number of handles per call).
MaxHops == 3
\* Largest number of body chunks a response carries.
MaxChunks == 1
\* Number of chunks a request-body source stream emits before it ends.
MaxSrcChunks == 1
\* Largest number of error events the transport emits during one call.
MaxErrors == 1
MaxConfigures == 2
\* Built-in default of maxRedirects.
DefaultMaxRedirects == 3

Undefined == "undefined"
Null == "null"

AllCalls == {"A", "B"}

Statuses == {200, 300, 400}
\* The chunks a response body is made of.
BodyChunks == {<<"{">>, <<"{", "}">>}
JsonCT == <<"application/json">>
\* Other values of a Content-Type header.
JsonCharsetCT == <<"application/json", ";", " ", "charset=utf-8">>
UpperJsonCT == <<"Application/JSON">>
SpacedJsonCT == <<" ", "application/json", " ", ";", " ", "charset=utf-8">>
TextCT == <<"text/plain">>
\* The chunks of the responses whose bodies are read in pieces.
CodecChunks == {<<"{">>, <<"}">>}

----------------------------------------------------------------------------
\* JavaScript objects: a function from the defined keys to their values.

EmptyObj == [k \in {} |-> 0]

Has(o, k) == k \in DOMAIN o

Get(o, k, dflt) == IF k \in DOMAIN o THEN o[k] ELSE dflt

Put(o, k, v) == [x \in (DOMAIN o) \cup {k} |-> IF x = k THEN v ELSE o[x]]

\* The object literal whose keys are those with a non-empty set of values.
Obj(fields) ==
    LET K == {k \in DOMAIN fields : fields[k] # {}}
    IN  [k \in K |-> CHOOSE v \in fields[k] : TRUE]

\* A request body value: kind is "string", "buffer", "object" or "stream";
\* val is the payload of the first three, sid the stream of the last.
StringBody(v) == [kind |-> "string", val |-> v, sid |-> 0]
BufferBody(v) == [kind |-> "buffer", val |-> v, sid |-> 0]
ObjectBody(v) == [kind |-> "object", val |-> v, sid |-> 0]
StreamBody(s) == [kind |-> "stream", val |-> <<>>, sid |-> s]

isStream(b) == b.kind = "stream"

JSONstringify(b) == StringBody(<<"json">> \o b.val)

\* A readable stream before anyone listens to it.
NewStream == [emitted |-> 0, ended |-> FALSE, listeners |-> {}]

SrcChunk(i) == <<"chunk" \o ToString(i)>>

----------------------------------------------------------------------------
\* Response values.

NullBody == [type |-> "null", text |-> <<>>]
NoBody == [type |-> "undefined", text |-> <<>>]
LiveBody == [type |-> "live", text |-> <<>>]
StringValue(t) == [type |-> "string", text |-> t]
JsonValue(t) == [type |-> "json", text |-> t]

Response(statusCode, headers, body) ==
    [statusCode |-> statusCode, headers |-> headers, body |-> body]

NoRes == Response(0, EmptyObj, NoBody)

RECURSIVE Concat(_)
Concat(chunks) ==
    IF chunks = <<>> THEN <<>> ELSE Head(chunks) \o Concat(Tail(chunks))

\* JSON.parse accepts the text: over the chunks of BodyChunks the only JSON text is {}.
IsJSON(text) == text = <<"{", "}">>

IsSpace(ch) == ch = " "

\* s.replace(/\s+/, ''): the first run of whitespace is removed.
RECURSIVE DropSpaces(_)
DropSpaces(s) ==
    IF s # <<>> /\ IsSpace(Head(s)) THEN DropSpaces(Tail(s)) ELSE s

RECURSIVE ReplaceFirstSpaces(_)
ReplaceFirstSpaces(s) ==
    IF s = <<>> THEN <<>>
    ELSE IF IsSpace(Head(s)) THEN DropSpaces(s)
    ELSE <<Head(s)>> \o ReplaceFirstSpaces(Tail(s))

\* s.split(';')[0]
RECURSIVE SplitFirst(_)
SplitFirst(s) ==
    IF s = <<>> \/ Head(s) = ";" THEN <<>>
    ELSE <<Head(s)>> \o SplitFirst(Tail(s))

\* The codec whose fallback without a Content-Type is the sentinel.
parseResponseBody_SentinelWithoutType(headers, body) ==
    IF Has(headers, "content-type")
    THEN LET mimeType == SplitFirst(ReplaceFirstSpaces(headers["content-type"]))
         IN  IF mimeType = JsonCT
             THEN IF IsJSON(Concat(body)) THEN JsonValue(Concat(body))
                  ELSE StringValue(<<"Malformed JSON.">>)
             ELSE StringValue(Concat(body))
    ELSE IF IsJSON(Concat(body)) THEN JsonValue(Concat(body))
         ELSE StringValue(<<"Malformed JSON.">>)

parseResponseBody(headers, body) ==
    IF Has(headers, "content-type")
    THEN LET mimeType == SplitFirst(ReplaceFirstSpaces(headers["content-type"]))
         IN  IF mimeType = JsonCT
             THEN IF IsJSON(Concat(body)) THEN JsonValue(Concat(body))
                  ELSE StringValue(<<"Malformed JSON.">>)
             ELSE StringValue(Concat(body))
    ELSE IF IsJSON(Concat(body)) THEN JsonValue(Concat(body))
         ELSE StringValue(Concat(body))

\* The place of the first token t of s at or after place i (Len(s) + 1: none).
RECURSIVE IndexFrom(_, _, _)
IndexFrom(s, t, i) ==
    IF i > Len(s) THEN Len(s) + 1
    ELSE IF s[i] = t THEN i
    ELSE IndexFrom(s, t, i + 1)

\* The filename option: a string, or null (also when it is not given).
FileName(text) == [isNull |-> FALSE, text |-> text]
NullName == [isNull |-> TRUE, text |-> <<>>]

\* The place of the last "/" of a path (0: none).
RECURSIVE LastSlash(_, _)
LastSlash(path, i) ==
    IF i = 0 THEN 0
    ELSE IF path[i] = "/" THEN i
    ELSE LastSlash(path, i - 1)

\* path.basename(p)
Basename(path) == SubSeq(path, LastSlash(path, Len(path)) + 1, Len(path))

\* path.join(dir, name); it throws when name is undefined.
PathJoin(dir, name) ==
    [threw |-> FALSE, path |-> IF name = <<>> THEN dir ELSE dir \o <<"/">> \o name]

PathJoinUndefined == [threw |-> TRUE, path |-> <<>>]

\* s.includes(t)
Includes(s, t) == \E i \in DOMAIN s : s[i] = t

\* filename that looks at the header before the name it is given.
filename_HeaderFirst(headers, outputPath, uriPath, name) ==
    IF /\ Has(headers, "content-disposition")
       /\ Includes(headers["content-disposition"], "filename")
    THEN LET v == headers["content-disposition"]
             i1 == IndexFrom(v, "=", 1)
             i2 == IndexFrom(v, "=", i1 + 1)
         IN  IF i1 > Len(v) THEN PathJoinUndefined
             ELSE PathJoin(outputPath, SubSeq(v, i1 + 1, i2 - 1))
    ELSE IF ~ name.isNull THEN PathJoin(outputPath, name.text)
    ELSE PathJoin(outputPath, Basename(uriPath))

\* filename: the path of the file a download is written to.
filename(headers, outputPath, uriPath, name) ==
    IF ~ name.isNull THEN PathJoin(outputPath, name.text)
    ELSE IF /\ Has(headers, "content-disposition")
            /\ Includes(headers["content-disposition"], "filename")
    THEN LET v == headers["content-disposition"]
             i1 == IndexFrom(v, "=", 1)
             i2 == IndexFrom(v, "=", i1 + 1)
         IN  IF i1 > Len(v) THEN PathJoinUndefined
             ELSE PathJoin(outputPath, SubSeq(v, i1 + 1, i2 - 1))
    ELSE PathJoin(outputPath, Basename(uriPath))

----------------------------------------------------------------------------
VARIABLES
    family,    \* which inputs the client program draws its options from
    inst,      \* the WebReq instance: its default stream, parse, followRedirects, maxRedirects
    entry,     \* per call: the method of WebReq it entered by, its arguments and its options
    todo,      \* the calls the client program has not made yet
    call,      \* per call: the options object it runs on (0: not started)
    heap,      \* the options objects, by reference
    streams,   \* the request-body source streams
    hops,      \* per call: the transport handles it opened, in order
    cbLog,     \* per call: the invocations of the callback handed to _request
    agents,    \* the settings of http.globalAgent and https.globalAgent
    configured \* the calls of configureGlobalAgent made, and the last of them

vars == <<family, inst, entry, todo, call, heap, streams, hops, cbLog, agents,
          configured>>

\* new WebReq(): the instance the module exports.
WebReq == [stream |-> FALSE, parse |-> TRUE, followRedirects |-> FALSE,
           maxRedirects |-> DefaultMaxRedirects]

----------------------------------------------------------------------------
\* The transport handle (http.ClientRequest) and what it has seen.

\* A URI is its protocol, "//" and its host name, then ":" and a port when
\* it names one, then its path ("/" and a segment, repeated), then "?" and a
\* query when it has one.  FirstUri is the URI of the first request of a call;
\* LocationOf(h) is the location the response of hop h names: every response
\* names a URI of its own.
FirstUri == <<"https:", "//", "u0", "/", "f0">>
LocationOf(h) == <<"https:", "//", "u" \o ToString(h), "/", "f" \o ToString(h)>>

\* The error object the handle of hop h emits: every handle has its own.
ErrorOf(h) == "error" \o ToString(h)

\* JavaScript values whose type matters: a number, a string, null.
JsNumber(v) == [type |-> "number", val |-> v]
JsString(v) == [type |-> "string", val |-> v]
JsNull == [type |-> "object", val |-> "null"]

\* url.parse that reads the first URI of the call whatever it is given.
UrlParse_FirstUri(uri) ==
    [protocol |-> FirstUri[1], hostname |-> FirstUri[3], port |-> Null,
     host |-> <<FirstUri[3]>>, pathname |-> SubSeq(FirstUri, 4, 5),
     search |-> <<>>, path |-> SubSeq(FirstUri, 4, 5), href |-> FirstUri]

\* url.parse(uri); search and port are <<>> and Null when the URI has none.
UrlParse(uri) ==
    LET hasPort == Len(uri) >= 5 /\ uri[4] = ":"
        first == IF hasPort THEN 6 ELSE 4
        query == IndexFrom(uri, "?", first)
        pathname == SubSeq(uri, first, query - 1)
        search == SubSeq(uri, query, Len(uri))
    IN  [protocol |-> uri[1], hostname |-> uri[3],
         port |-> IF hasPort THEN uri[5] ELSE Null,
         host |-> IF hasPort THEN <<uri[3], ":", uri[5]>> ELSE <<uri[3]>>,
         pathname |-> pathname, search |-> search,
         path |-> pathname \o search, href |-> uri]

\* Buffer.byteLength(string): every character is one byte but those of two.
Bytes(ch) == IF ch = "U+00E9" THEN 2 ELSE 1

RECURSIVE ByteLength(_)
ByteLength(str) ==
    IF str = <<>> THEN 0 ELSE Bytes(Head(str)) + ByteLength(Tail(str))

\* createRequestOptions: the headers object after it has added to it.
RequestHeaders(parsedUrl, opts) ==
    LET method == Get(opts, "method", "GET")
        h0 == Get(opts, "headers", EmptyObj)
        infer == method \in {"POST", "PUT", "PATCH"} /\ Has(opts, "body")
        h1 == IF infer /\ ~ Has(h0, "Content-Type") /\ ~ Has(h0, "content-type")
              THEN Put(h0, "Content-Type", JsonCT) ELSE h0
        h2 == IF /\ infer
                 /\ ~ Has(h1, "Content-Length") /\ ~ Has(h1, "content-length")
                 /\ opts["body"].kind = "string"
              THEN Put(h1, "Content-Length", ByteLength(opts["body"].val)) ELSE h1
    IN  IF Has(opts, "proxy")
        THEN Put(h2, "Host", <<parsedUrl.protocol, "//">> \o parsedUrl.host)
        ELSE h2

\* createRequestOptions that leaves the path of the target when a proxy is set.
createRequestOptions_PathOfTarget(parsedUrl, opts) ==
    LET headers == RequestHeaders(parsedUrl, opts)
        proxied == Has(opts, "proxy")
        parsedProxyUrl == UrlParse(Get(opts, "proxy", FirstUri))
        target ==
            [host |-> IF proxied THEN parsedProxyUrl.hostname ELSE parsedUrl.hostname,
             port |-> IF proxied
                      THEN IF parsedProxyUrl.port = Null THEN JsNull
                           ELSE JsString(parsedProxyUrl.port)
                      ELSE IF parsedUrl.port # Null THEN JsNumber(parsedUrl.port)
                      ELSE IF parsedUrl.protocol = "https:" THEN JsNumber("443")
                      ELSE JsNumber("80"),
             path |-> IF parsedUrl.search = <<>> THEN parsedUrl.pathname
                      ELSE parsedUrl.pathname \o parsedUrl.search,
             method |-> Get(opts, "method", "GET")]
        requestOptions == IF DOMAIN headers # {} THEN Put(target, "headers", headers)
                          ELSE target
    IN  IF parsedUrl.protocol = "https:" /\ Has(opts, "certificate")
        THEN [k \in DOMAIN requestOptions \cup DOMAIN opts["certificate"] |->
                 IF k \in DOMAIN opts["certificate"] THEN opts["certificate"][k]
                 ELSE requestOptions[k]]
        ELSE requestOptions

\* createRequestOptions that copies the certificate whatever the scheme.
createRequestOptions_AnyScheme(parsedUrl, opts) ==
    LET headers == RequestHeaders(parsedUrl, opts)
        proxied == Has(opts, "proxy")
        parsedProxyUrl == UrlParse(Get(opts, "proxy", FirstUri))
        target ==
            [host |-> IF proxied THEN parsedProxyUrl.hostname ELSE parsedUrl.hostname,
             port |-> IF proxied
                      THEN IF parsedProxyUrl.port = Null THEN JsNull
                           ELSE JsString(parsedProxyUrl.port)
                      ELSE IF parsedUrl.port # Null THEN JsNumber(parsedUrl.port)
                      ELSE IF parsedUrl.protocol = "https:" THEN JsNumber("443")
                      ELSE JsNumber("80"),
             path |-> IF proxied THEN parsedUrl.href
                      ELSE IF parsedUrl.search = <<>> THEN parsedUrl.pathname
                      ELSE parsedUrl.pathname \o parsedUrl.search,
             method |-> Get(opts, "method", "GET")]
        requestOptions == IF DOMAIN headers # {} THEN Put(target, "headers", headers)
                          ELSE target
    IN  IF Has(opts, "certificate")
        THEN [k \in DOMAIN requestOptions \cup DOMAIN opts["certificate"] |->
                 IF k \in DOMAIN opts["certificate"] THEN opts["certificate"][k]
                 ELSE requestOptions[k]]
        ELSE requestOptions

\* createRequestOptions that leaves the port of the URI as text.
createRequestOptions_PortText(parsedUrl, opts) ==
    LET headers == RequestHeaders(parsedUrl, opts)
        proxied == Has(opts, "proxy")
        parsedProxyUrl == UrlParse(Get(opts, "proxy", FirstUri))
        target ==
            [host |-> IF proxied THEN parsedProxyUrl.hostname ELSE parsedUrl.hostname,
             port |-> IF proxied
                      THEN IF parsedProxyUrl.port = Null THEN JsNull
                           ELSE JsString(parsedProxyUrl.port)
                      ELSE IF parsedUrl.port # Null THEN JsString(parsedUrl.port)
                      ELSE IF parsedUrl.protocol = "https:" THEN JsNumber("443")
                      ELSE JsNumber("80"),
             path |-> IF proxied THEN parsedUrl.href
                      ELSE IF parsedUrl.search = <<>> THEN parsedUrl.pathname
                      ELSE parsedUrl.pathname \o parsedUrl.search,
             method |-> Get(opts, "method", "GET")]
        requestOptions == IF DOMAIN headers # {} THEN Put(target, "headers", headers)
                          ELSE target
    IN  IF parsedUrl.protocol = "https:" /\ Has(opts, "certificate")
        THEN [k \in DOMAIN requestOptions \cup DOMAIN opts["certificate"] |->
                 IF k \in DOMAIN opts["certificate"] THEN opts["certificate"][k]
                 ELSE requestOptions[k]]
        ELSE requestOptions

\* createRequestOptions: the parameters proto.request is called with.
createRequestOptions(parsedUrl, opts) ==
    LET headers == RequestHeaders(parsedUrl, opts)
        proxied == Has(opts, "proxy")
        parsedProxyUrl == UrlParse(Get(opts, "proxy", FirstUri))
        target ==
            [host |-> IF proxied THEN parsedProxyUrl.hostname ELSE parsedUrl.hostname,
             port |-> IF proxied
                      THEN IF parsedProxyUrl.port = Null THEN JsNull
                           ELSE JsString(parsedProxyUrl.port)
                      ELSE IF parsedUrl.port # Null THEN JsNumber(parsedUrl.port)
                      ELSE IF parsedUrl.protocol = "https:" THEN JsNumber("443")
                      ELSE JsNumber("80"),
             path |-> IF proxied THEN parsedUrl.href
                      ELSE IF parsedUrl.search = <<>> THEN parsedUrl.pathname
                      ELSE parsedUrl.pathname \o parsedUrl.search,
             method |-> Get(opts, "method", "GET")]
        requestOptions == IF DOMAIN headers # {} THEN Put(target, "headers", headers)
                          ELSE target
    IN  IF parsedUrl.protocol = "https:" /\ Has(opts, "certificate")
        THEN [k \in DOMAIN requestOptions \cup DOMAIN opts["certificate"] |->
                 IF k \in DOMAIN opts["certificate"] THEN opts["certificate"][k]
                 ELSE requestOptions[k]]
        ELSE requestOptions

ClientRequest(uri, requestOptions) ==
    [uri |-> uri, method |-> requestOptions["method"], params |-> requestOptions,
     outputPath |-> <<>>,
     writes |-> <<>>, ends |-> 0, lateWrite |-> FALSE,
     responded |-> FALSE, res |-> NoRes, handler |-> "none",
     sent |-> <<>>, data |-> <<>>, resEnded |-> FALSE, fileEnded |-> FALSE,
     fileFinished |-> FALSE,
     error |-> Null]

ReqWrite(req, d) ==
    [req EXCEPT !.writes = Append(@, d), !.lateWrite = @ \/ req.ends > 0]

ReqEnd(req) == [req EXCEPT !.ends = @ + 1]

\* _requestWriter: what it does to the handle at once.
_requestWriter(req, data) ==
    IF isStream(data) THEN req ELSE ReqWrite(req, data.val)

\* _requestWriter: the listeners it leaves on a stream body.
WriterListens(data) == isStream(data)

\* _request that creates an agent of its own from the one it is given.
_request_NewAgent(c, h, uri, options, strs) ==
    LET parsedUrl == UrlParse(uri)
        built == createRequestOptions(parsedUrl, options)
        requestOptions ==
            IF Has(options, "agent") /\ options["agent"] # "false"
            THEN Put(built, "agent", "new Agent")
            ELSE built
        \* the headers object of the caller is the one that was added to
        after == IF Has(options, "headers")
                 THEN Put(options, "headers", RequestHeaders(parsedUrl, options))
                 ELSE options
        req == ClientRequest(parsedUrl.href, requestOptions)
    IN  IF Has(options, "body")
        THEN [req |-> _requestWriter(req, options["body"]),
              options |-> after,
              streams |->
                 IF WriterListens(options["body"])
                 THEN [strs EXCEPT ![options["body"].sid].listeners = @ \cup {<<c, h>>}]
                 ELSE strs]
        ELSE [req |-> ReqEnd(req), options |-> after, streams |-> strs]

\* _request up to the return of proto.request and the handling of the body:
\* the handle of hop h of call c, and the streams with its listeners added.
_request(c, h, uri, options, strs) ==
    LET parsedUrl == UrlParse(uri)
        built == createRequestOptions(parsedUrl, options)
        requestOptions ==
            IF Has(options, "agent")
            THEN Put(built, "agent",
                     IF options["agent"] # "false" THEN options["agent"] ELSE "false")
            ELSE built
        \* the headers object of the caller is the one that was added to
        after == IF Has(options, "headers")
                 THEN Put(options, "headers", RequestHeaders(parsedUrl, options))
                 ELSE options
        req == ClientRequest(parsedUrl.href, requestOptions)
    IN  IF Has(options, "body")
        THEN [req |-> _requestWriter(req, options["body"]),
              options |-> after,
              streams |->
                 IF WriterListens(options["body"])
                 THEN [strs EXCEPT ![options["body"].sid].listeners = @ \cup {<<c, h>>}]
                 ELSE strs]
        ELSE [req |-> ReqEnd(req), options |-> after, streams |-> strs]

\* The redirect test with the status range closed at 400.
ShouldRedirect_Upto400(res, options) ==
    /\ res.statusCode >= 300
    /\ res.statusCode <= 400
    /\ options["followRedirects"]
    /\ Get(options, "method", Undefined) # "DELETE"
    /\ options["redirects"] < options["maxRedirects"]
    /\ Has(res.headers, "location")

\* The redirect test that counts one redirect too many.
ShouldRedirect_OneMore(res, options) ==
    /\ res.statusCode >= 300
    /\ res.statusCode < 400
    /\ options["followRedirects"]
    /\ Get(options, "method", Undefined) # "DELETE"
    /\ options["redirects"] <= options["maxRedirects"]
    /\ Has(res.headers, "location")

\* The redirect test of the response callback.
ShouldRedirect(res, options) ==
    /\ res.statusCode >= 300
    /\ res.statusCode < 400
    /\ options["followRedirects"]
    /\ Get(options, "method", Undefined) # "DELETE"
    /\ options["redirects"] < options["maxRedirects"]
    /\ Has(res.headers, "location")

\* The routing that looks at path before stream.
ResponseRoute_PathFirst(options, requestOptions) ==
    IF Has(options, "path") /\ requestOptions.method = "GET" THEN "file"
    ELSE IF options["stream"] THEN "stream"
    ELSE "buffer"

\* The way a response that is not followed is handled.
ResponseRoute(options, requestOptions) ==
    IF options["stream"] THEN "stream"
    ELSE IF Has(options, "path") /\ requestOptions.method = "GET" THEN "file"
    ELSE "buffer"

\* One invocation of the callback handed to _request, by the handle of hop h.
Callback(err, res, h) == [err |-> err, res |-> res, hop |-> h]

\* The live response object handed to the caller when stream is set.
LiveResponse(res) == Response(res.statusCode, res.headers, LiveBody)

----------------------------------------------------------------------------
\* The options the client program passes.

DispatchInputs ==
    {Obj([method |-> m, followRedirects |-> f, maxRedirects |-> r,
          stream |-> s, path |-> p]) :
        m \in {{}, {"GET"}, {"POST"}, {"DELETE"}},
        f \in {{}, {TRUE}}, r \in {{}, {0}, {1}},
        s \in {{}, {TRUE}}, p \in {{}, {<<"dir">>}}}

BodyInputs ==
    {Obj([method |-> m, followRedirects |-> f, maxRedirects |-> {1},
          path |-> p, parse |-> q, body |-> b]) :
        m \in {{"GET"}, {"POST"}, {"PATCH"}},
        f \in {{}, {TRUE}}, p \in {{}, {<<"dir">>}}, q \in {{}, {FALSE}},
        b \in {{}, {StringBody(<<"s">>)}, {BufferBody(<<"b">>)},
               {ObjectBody(<<"o">>)}, {StreamBody(0)}}}

\* The options of a client that makes two calls.
TwoInputs ==
    {Obj([method |-> x[1], followRedirects |-> {TRUE}, maxRedirects |-> {1},
          path |-> x[2]]) :
        x \in {<<{}, {<<"dir">>}>>, <<{"POST"}, {<<"dir">>}>>}}

\* The options of a client that calls through the verb wrappers.
EntryInputs ==
    {Obj([method |-> m, path |-> p]) :
        m \in {{}, {"GET"}, {"PUT"}}, p \in {{}, {<<"dir">>}}}

\* The options of a client that sets the members of the instance.
DefaultsInputs ==
    {Obj([stream |-> s, parse |-> q, followRedirects |-> f, maxRedirects |-> r]) :
        s \in {{}, {FALSE}, {TRUE}}, q \in {{}, {FALSE}, {TRUE}},
        f \in {{}, {FALSE}, {TRUE}}, r \in {{}, {0}, {2}}}
    \cup {Obj([method |-> m, path |-> {<<"dir">>}]) : m \in {{}, {"POST"}}}

\* The options of a client that reads response bodies.
CodecInputs ==
    {Obj([method |-> m, path |-> p, parse |-> q]) :
        m \in {{}, {"POST"}}, p \in {{}, {<<"dir">>}}, q \in {{}, {FALSE}}}

\* The options of a client that sets headers and bodies.
HeadersInputs ==
    {Obj([method |-> m, body |-> b, headers |-> h]) :
        m \in {{}, {"POST"}, {"PATCH"}, {"DELETE"}},
        b \in {{}, {StringBody(<<"s", "U+00E9">>)}, {BufferBody(<<"b">>)},
               {ObjectBody(<<"o">>)}, {StreamBody(0)}},
        h \in {{}, {EmptyObj}}
              \cup {{[x \in {k} |-> TextCT]} :
                       k \in {"Content-Type", "content-type", "CONTENT-TYPE"}}
              \cup {{[x \in {k} |-> 99]} :
                       k \in {"Content-Length", "content-length", "Content-length"}}}

\* The proxies, certificates and agents a client passes.
ProxyInputs ==
    {{}, {<<"http:", "//", "proxy", ":", "8080", "/">>}, {<<"http:", "//", "proxy", "/">>}}

CertificateInputs ==
    {{}, {[ca |-> "CA"]}, {[cert |-> "CERT", key |-> "KEY", passphrase |-> "PASS"]}}

AgentInputs == {{}, {"agent1"}, {"false"}}

\* The options of a client that chooses where and how to connect.
TargetInputs ==
    {Obj([followRedirects |-> {TRUE}, maxRedirects |-> {1}, proxy |-> x,
          certificate |-> k, agent |-> g, headers |-> h]) :
        x \in ProxyInputs, k \in CertificateInputs, g \in AgentInputs,
        h \in {{}, {[Accept |-> TextCT]}}}

ParamsInputs ==
    HeadersInputs \cup TargetInputs \cup {Obj([path |-> {<<"dir">>}])}

\* The options of a client that downloads files.
FileInputs ==
    {Obj([method |-> m, path |-> {<<"dir">>}, filename |-> n]) :
        m \in {{}, {"GET"}, {"POST"}},
        n \in {{}, {NullName}, {FileName(<<"n.txt">>)}}}

\* The URI of the first request of a call.
UriInputs(fam) ==
    IF fam = "params"
    THEN {FirstUri,
          <<"http:", "//", "h1", "/", "f">>,
          <<"https:", "//", "h2", ":", "8443", "/", "a", "/", "f", "?", "q=1">>,
          <<"http:", "//", "h3", ":", "8000", "/", "f", "?", "q=1">>}
    ELSE IF fam = "file"
    THEN {FirstUri, <<"https:", "//", "h2", "/", "a", "/", "f.bin", "?", "q=1">>}
    ELSE IF fam = "certificate"
    THEN {FirstUri, <<"http:", "//", "h1", "/", "f">>}
    ELSE {FirstUri}

\* The options of a client of the version with bodyOnly.
BodyOnlyInputs ==
    {Obj([bodyOnly |-> b, parse |-> q]) :
        b \in {{}, {TRUE}, {FALSE}}, q \in {{}, {FALSE}}}
    \cup {Obj([method |-> {"POST"}, bodyOnly |-> b, followRedirects |-> {TRUE},
               maxRedirects |-> {1}, body |-> d[1], agent |-> d[2]]) :
             b \in {{}, {FALSE}},
             d \in {<<{StringBody(<<"s">>)}, {}>>, <<{StringBody(<<>>)}, {"agent1"}>>}}

\* The options of a client that changes the members of the instance while
\* its call is under way.
InFlightInputs ==
    {EmptyObj, [parse |-> FALSE], [stream |-> TRUE], [path |-> <<"dir">>],
     [method |-> "POST", path |-> <<"dir">>]}

\* The options of a client that passes certificate objects with any keys.
AnyCertificateInputs ==
    {Obj([certificate |-> k, headers |-> h]) :
        k \in {{}, {[ca |-> "CA"]}, {[host |-> "h9"]},
               {[ca |-> "CA", method |-> "DELETE"]}},
        h \in {{}, {[Accept |-> TextCT]}}}
    \cup {[path |-> <<"dir">>], [method |-> "POST", path |-> <<"dir">>]}

Inputs(fam) ==
    IF fam = "dispatch" THEN DispatchInputs
    ELSE IF fam = "body" THEN BodyInputs
    ELSE IF fam = "entry" THEN EntryInputs
    ELSE IF fam = "defaults" THEN DefaultsInputs
    ELSE IF fam = "codec" THEN CodecInputs
    ELSE IF fam = "params" THEN ParamsInputs
    ELSE IF fam = "file" THEN FileInputs
    ELSE IF fam = "bodyOnly" THEN BodyOnlyInputs
    ELSE IF fam = "inflight" THEN InFlightInputs
    ELSE IF fam = "certificate" THEN AnyCertificateInputs
    ELSE TwoInputs

\* What is passed as the options argument: nothing, a new object literal,
\* (by a client that makes two calls) the object of an earlier call, or (by a
\* client of the wrappers) a function.
Arguments(fam, objects) ==
    {[kind |-> "none", obj |-> EmptyObj, ref |-> 0]}
    \cup {[kind |-> "fresh", obj |-> o, ref |-> 0] : o \in Inputs(fam)}
    \cup {[kind |-> "same", obj |-> EmptyObj, ref |-> r] :
             r \in IF fam = "two" THEN objects ELSE {}}
    \cup {[kind |-> "function", obj |-> EmptyObj, ref |-> 0] :
             x \in IF fam \in {"entry", "bodyOnly"} THEN {1} ELSE {}}

\* The values of the instance members stream, parse, followRedirects and
\* maxRedirects the client has assigned before it calls.
InstInputs ==
    [stream : BOOLEAN, parse : BOOLEAN, followRedirects : BOOLEAN,
     maxRedirects : {1, DefaultMaxRedirects}]

----------------------------------------------------------------------------
\* The arguments of request() and of the verb wrappers.

UndefinedArg == [type |-> "undefined", obj |-> EmptyObj]
FunctionArg == [type |-> "function", obj |-> [isFunction |-> TRUE]]
ObjectArg(o) == [type |-> "object", obj |-> o]

\* The methods of WebReq a call enters by.
Wrappers(fam) ==
    IF fam = "entry" THEN {"request", "get", "post", "put", "patch", "delete"}
    ELSE {"request"}

\* What is passed as the callback argument.
CallbackArguments(fam, a) ==
    IF fam \in {"entry", "bodyOnly"} /\ a.kind # "function"
    THEN {UndefinedArg, FunctionArg}
    ELSE {UndefinedArg}

Verb(via) ==
    IF via = "get" THEN "GET"
    ELSE IF via = "post" THEN "POST"
    ELSE IF via = "put" THEN "PUT"
    ELSE IF via = "patch" THEN "PATCH"
    ELSE "DELETE"

\* The head of request() and of every wrapper that leaves its arguments as
\* they were passed.
NormalizeArgs_NoSwap(options, callback) ==
    [options |-> options, callback |-> callback]

\* The head of request() and of every wrapper: a function in the place of
\* the options is the callback.
NormalizeArgs(options, callback) ==
    IF callback.type = "undefined" /\ options.type = "function"
    THEN [options |-> UndefinedArg, callback |-> options]
    ELSE [options |-> options, callback |-> callback]

\* get, post, put, patch, delete: the arguments they hand to request().
Wrapper(via, options, callback) ==
    IF via = "request" THEN [options |-> options, callback |-> callback]
    ELSE LET n == NormalizeArgs(options, callback)
         IN  [options |-> IF n.options.type = "undefined" THEN UndefinedArg
                          ELSE ObjectArg(Put(n.options.obj, "method", Verb(via))),
              callback |-> n.callback]

\* What request() returns.
Returns(callback) ==
    IF callback.type = "undefined" THEN "promise" ELSE Undefined

NoEntry == [via |-> "none", second |-> "undefined", third |-> "undefined",
            callback |-> "undefined", returns |-> Undefined, this |-> WebReq,
            given |-> EmptyObj, normalized |-> EmptyObj]

----------------------------------------------------------------------------
\* WebReq.request

\* The branch of request() that replaces the body by a read stream of path.
ReadsFile(opts) ==
    /\ ~ (Has(opts, "body") /\ opts["body"].kind = "object")
    /\ Get(opts, "method", Undefined) \in {"POST", "PUT"}
    /\ Has(opts, "path")

\* request() that takes a per-call parse of false for one that is not set.
MergeOptions_FalsyLost(options, this, sid) ==
    LET o1 == Put(options, "stream", Get(options, "stream", this.stream))
        o2 == Put(o1, "parse", IF Get(options, "parse", FALSE) THEN TRUE ELSE this.parse)
        o3 == Put(o2, "followRedirects",
                  Get(options, "followRedirects", this.followRedirects))
        o4 == Put(o3, "maxRedirects", Get(options, "maxRedirects", this.maxRedirects))
        o5 == Put(o4, "redirects", 0)
    IN  IF Has(o5, "body") /\ o5["body"].kind = "object"
        THEN Put(o5, "body", JSONstringify(o5["body"]))
        ELSE IF ReadsFile(o5) THEN Put(o5, "body", StreamBody(sid))
        ELSE o5

\* request(): the defaults of the instance, the counter and the body written
\* onto the options object; sid is the read stream createReadStream returns.
MergeOptions(options, this, sid) ==
    LET o1 == Put(options, "stream", Get(options, "stream", this.stream))
        o2 == Put(o1, "parse", Get(options, "parse", this.parse))
        o3 == Put(o2, "followRedirects",
                  Get(options, "followRedirects", this.followRedirects))
        o4 == Put(o3, "maxRedirects", Get(options, "maxRedirects", this.maxRedirects))
        o5 == Put(o4, "redirects", 0)
    IN  IF Has(o5, "body") /\ o5["body"].kind = "object"
        THEN Put(o5, "body", JSONstringify(o5["body"]))
        ELSE IF ReadsFile(o5) THEN Put(o5, "body", StreamBody(sid))
        ELSE o5

\* A call of request() or of a wrapper, up to its return.
Request(c) ==
    /\ c \in todo
    /\ \E a \in Arguments(family, DOMAIN heap), via \in Wrappers(family) :
       \E third \in CallbackArguments(family, a), uri \in UriInputs(family) :
          LET ref == IF a.kind = "same" THEN a.ref ELSE Len(heap) + 1
              \* a stream the caller made for this call's body
              own == a.kind = "fresh" /\ Has(a.obj, "body") /\ isStream(a.obj["body"])
              strs1 == IF own THEN Append(streams, NewStream) ELSE streams
              given == IF a.kind = "same" THEN heap[a.ref]
                       ELSE IF own THEN Put(a.obj, "body", StreamBody(Len(strs1)))
                       ELSE a.obj
              second == IF a.kind = "none" THEN UndefinedArg
                        ELSE IF a.kind = "function" THEN FunctionArg
                        ELSE ObjectArg(given)
              passed == Wrapper(via, second, third)
              n == NormalizeArgs(passed.options, passed.callback)
              options == IF n.options.type = "undefined" THEN [method |-> "GET"]
                         ELSE n.options.obj
              opts == MergeOptions(options, inst, Len(strs1) + 1)
              strs2 == IF ReadsFile(opts) THEN Append(strs1, NewStream) ELSE strs1
              r == _request(c, 1, uri, opts, strs2)
          IN  /\ heap' = IF a.kind = "same" THEN [heap EXCEPT ![ref] = r.options]
                         ELSE Append(heap, r.options)
              /\ call' = [call EXCEPT ![c] = ref]
              /\ hops' = [hops EXCEPT ![c] = <<r.req>>]
              /\ streams' = r.streams
              /\ entry' = [entry EXCEPT ![c] =
                             [via |-> via, second |-> second.type, third |-> third.type,
                              callback |-> n.callback.type,
                              returns |-> Returns(n.callback), this |-> inst,
                              given |-> IF second.type = "object" THEN given
                                        ELSE EmptyObj,
                              normalized |-> opts]]
    /\ todo' = todo \ {c}
    /\ UNCHANGED <<family, inst, agents, configured, cbLog>>

----------------------------------------------------------------------------
\* The transport's events and the handlers _request leaves on the handle.

Started(c) == call[c] # 0

Last(c) == Len(hops[c])

ErrorCount(c) == Cardinality({h \in DOMAIN hops[c] : hops[c][h].error # Null})

\* The status codes and headers a response to hop h may carry.
StatusInputs(fam) ==
    IF fam \in {"two", "entry", "defaults", "params", "file", "bodyOnly", "inflight",
               "certificate"}
    THEN {200, 300}
    ELSE IF fam = "codec" THEN {200, 400}
    ELSE Statuses

ContentTypeInputs(fam) ==
    IF fam \in {"two", "entry", "defaults", "params", "file", "inflight", "certificate"}
    THEN {{}}
    ELSE IF fam = "codec"
    THEN {{}, {JsonCT}, {JsonCharsetCT}, {UpperJsonCT}, {SpacedJsonCT}, {TextCT}}
    ELSE {{}, {JsonCT}}

\* The values of a Content-Disposition header.
DispositionInputs(fam) ==
    IF fam = "file"
    THEN {{}, {<<"inline">>},
          {<<"attachment", ";", "filename", "=", "h.txt">>},
          {<<"attachment", ";", "filename", "=", "h.txt", ";", "size", "=", "3">>},
          {<<"attachment", ";", "filename">>}}
    ELSE {{}}

HeaderInputs(fam, h) ==
    {Obj(("location" :> l) @@ ("content-type" :> t) @@ ("content-disposition" :> d)) :
        l \in IF fam \in {"entry", "codec", "file"} THEN {{}} ELSE {{}, {LocationOf(h)}},
        t \in ContentTypeInputs(fam),
        d \in DispositionInputs(fam)}

\* The chunks a response body may be made of, and how many of them.
ChunkInputs(fam) ==
    IF fam \in {"two", "entry", "params", "file", "certificate"} THEN {<<"{">>}
    ELSE IF fam \in {"defaults", "bodyOnly", "inflight"} THEN {<<"{", "}">>}
    ELSE IF fam = "codec" THEN CodecChunks
    ELSE BodyChunks

ChunkLimit(fam) == IF fam = "codec" THEN MaxChunks + 1 ELSE MaxChunks

\* A response callback that re-issues while the hop is still awaiting its
\* response.
OnResponse_Speculative(c, h, res) ==
    LET options == heap[call[c]]
        req == [hops[c][h] EXCEPT !.responded = TRUE, !.res = res]
    IN  IF ShouldRedirect(res, options)
        THEN LET o2 == Put(options, "redirects", options["redirects"] + 1)
                 r == _request(c, Len(hops[c]) + 1, res.headers["location"], o2, streams)
             IN  /\ Len(hops[c]) < MaxHops
                 /\ heap' = [heap EXCEPT ![call[c]] = r.options]
                 /\ hops' = [hops EXCEPT ![c] =
                                Append([@ EXCEPT ![h] = [hops[c][h] EXCEPT !.handler = "redirect"]],
                                       r.req)]
                 /\ streams' = r.streams
                 /\ UNCHANGED cbLog
        ELSE LET route == ResponseRoute(options, req)
                 \* _responseFileHandler, up to fs.createWriteStream
                 out == filename(res.headers, Get(options, "path", <<>>),
                                 UrlParse(req.uri).path,
                                 Get(options, "filename", NullName))
             IN  /\ hops' = [hops EXCEPT ![c][h] =
                                IF route # "file" THEN [req EXCEPT !.handler = route]
                                ELSE IF out.threw THEN [req EXCEPT !.handler = "threw"]
                                ELSE [req EXCEPT !.handler = route,
                                                 !.outputPath = out.path]]
                 /\ cbLog' = IF route = "stream"
                             THEN [cbLog EXCEPT ![c] =
                                     Append(@, Callback(Null, LiveResponse(res), h))]
                             ELSE cbLog
                 /\ UNCHANGED <<heap, streams>>

\* The response callback of proto.request, for the response res to hop h.
OnResponse(c, h, res) ==
    LET options == heap[call[c]]
        req == [hops[c][h] EXCEPT !.responded = TRUE, !.res = res]
    IN  IF ShouldRedirect(res, options)
        THEN LET o2 == Put(options, "redirects", options["redirects"] + 1)
                 r == _request(c, Len(hops[c]) + 1, res.headers["location"], o2, streams)
             IN  /\ Len(hops[c]) < MaxHops
                 /\ heap' = [heap EXCEPT ![call[c]] = r.options]
                 /\ hops' = [hops EXCEPT ![c] =
                                Append([@ EXCEPT ![h] = [req EXCEPT !.handler = "redirect"]],
                                       r.req)]
                 /\ streams' = r.streams
                 /\ UNCHANGED cbLog
        ELSE LET route == ResponseRoute(options, req)
                 \* _responseFileHandler, up to fs.createWriteStream
                 out == filename(res.headers, Get(options, "path", <<>>),
                                 UrlParse(req.uri).path,
                                 Get(options, "filename", NullName))
             IN  /\ hops' = [hops EXCEPT ![c][h] =
                                IF route # "file" THEN [req EXCEPT !.handler = route]
                                ELSE IF out.threw THEN [req EXCEPT !.handler = "threw"]
                                ELSE [req EXCEPT !.handler = route,
                                                 !.outputPath = out.path]]
                 /\ cbLog' = IF route = "stream"
                             THEN [cbLog EXCEPT ![c] =
                                     Append(@, Callback(Null, LiveResponse(res), h))]
                             ELSE cbLog
                 /\ UNCHANGED <<heap, streams>>

Respond(c) ==
    /\ Started(c)
    /\ ~ hops[c][Last(c)].responded
    /\ hops[c][Last(c)].error = Null
    /\ \E st \in StatusInputs(family), hs \in HeaderInputs(family, Last(c)) :
          OnResponse(c, Last(c), Response(st, hs, NoBody))
    /\ UNCHANGED <<family, inst, agents, configured, entry, todo, call>>

\* Whether the response of hop h is being read (by a handler or by the caller).
Flowing(req) ==
    /\ req.responded
    /\ req.handler \in {"stream", "file", "buffer"}
    /\ ~ req.resEnded
    /\ req.error = Null

\* The 'data' listeners that put the newest chunk first.
OnData_Prepend(req, d) ==
    IF req.handler \in {"buffer", "file"}
    THEN [req EXCEPT !.sent = Append(@, d), !.data = <<d>> \o @]
    ELSE [req EXCEPT !.sent = Append(@, d)]

\* The 'data' listeners of _responseHandler and _responseFileHandler.
OnData(req, d) ==
    IF req.handler \in {"buffer", "file"}
    THEN [req EXCEPT !.sent = Append(@, d), !.data = Append(@, d)]
    ELSE [req EXCEPT !.sent = Append(@, d)]

Data(c) ==
    /\ Started(c)
    /\ \E h \in DOMAIN hops[c], d \in ChunkInputs(family) :
          /\ Flowing(hops[c][h])
          /\ Len(hops[c][h].sent) < ChunkLimit(family)
          /\ hops' = [hops EXCEPT ![c][h] = OnData(@, d)]
    /\ UNCHANGED <<family, inst, agents, configured, entry, todo, call, heap, streams, cbLog>>

\* The result of handlers that read parse from the instance.
EndResult_InstanceParse(req, options) ==
    IF req.handler = "file"
    THEN Response(req.res.statusCode, req.res.headers, NullBody)
    ELSE Response(req.res.statusCode, req.res.headers,
                  IF inst.parse
                  THEN parseResponseBody(req.res.headers, req.data)
                  ELSE StringValue(Concat(req.data)))

\* The result _responseHandler and _responseFileHandler build on 'end'.
EndResult(req, options) ==
    IF req.handler = "file"
    THEN Response(req.res.statusCode, req.res.headers, NullBody)
    ELSE Response(req.res.statusCode, req.res.headers,
                  IF options["parse"]
                  THEN parseResponseBody(req.res.headers, req.data)
                  ELSE StringValue(Concat(req.data)))

\* The 'end' listeners that report a body they cannot parse as an error.
OnEnd_ThrowsOnMalformed(c, h) ==
    LET req == hops[c][h]
        result == EndResult(req, heap[call[c]])
    IN  /\ hops' = [hops EXCEPT ![c][h] =
                       [req EXCEPT !.resEnded = TRUE,
                                   !.fileEnded = req.handler = "file"]]
        /\ cbLog' = IF req.handler \in {"buffer", "file"}
                    THEN [cbLog EXCEPT ![c] =
                            Append(@, IF result.body = StringValue(<<"Malformed JSON.">>)
                                      THEN Callback("SyntaxError", NoRes, h)
                                      ELSE Callback(Null, result, h))]
                    ELSE cbLog

\* The 'end' listeners of _responseHandler and _responseFileHandler.
OnEnd(c, h) ==
    LET req == hops[c][h]
    IN  /\ hops' = [hops EXCEPT ![c][h] =
                       [req EXCEPT !.resEnded = TRUE,
                                   !.fileEnded = req.handler = "file"]]
        /\ cbLog' = IF req.handler \in {"buffer", "file"}
                    THEN [cbLog EXCEPT ![c] =
                            Append(@, Callback(Null, EndResult(req, heap[call[c]]), h))]
                    ELSE cbLog

End(c) ==
    /\ Started(c)
    /\ \E h \in DOMAIN hops[c] :
          /\ Flowing(hops[c][h])
          /\ OnEnd(c, h)
    /\ UNCHANGED <<family, inst, agents, configured, entry, todo, call, heap, streams>>

\* The error listener that hands the caller an error of its own making.
OnError_Wrapped(c, h, err) ==
    /\ hops' = [hops EXCEPT ![c][h].error = err]
    /\ cbLog' = [cbLog EXCEPT ![c] = Append(@, Callback("Error: " \o err, NoRes, h))]

\* req.on('error')
OnError(c, h, err) ==
    /\ hops' = [hops EXCEPT ![c][h].error = err]
    /\ cbLog' = [cbLog EXCEPT ![c] = Append(@, Callback(err, NoRes, h))]

Error(c) ==
    /\ Started(c)
    /\ ErrorCount(c) < MaxErrors
    /\ \E h \in DOMAIN hops[c] :
          /\ hops[c][h].error = Null
          /\ ~ hops[c][h].resEnded
          /\ OnError(c, h, ErrorOf(h))
    /\ UNCHANGED <<family, inst, agents, configured, entry, todo, call, heap, streams>>

\* The write stream of a file download emits 'finish': every chunk written
\* to it is in the file.
Finish(c) ==
    /\ Started(c)
    /\ \E h \in DOMAIN hops[c] :
          /\ hops[c][h].fileEnded
          /\ ~ hops[c][h].fileFinished
          /\ hops' = [hops EXCEPT ![c][h].fileFinished = TRUE]
    /\ UNCHANGED <<family, inst, agents, configured, entry, todo, call, heap, streams, cbLog>>

\* The 'data' listeners _requestWriter put on stream s.
SrcData(s) ==
    /\ streams[s].listeners # {}
    /\ ~ streams[s].ended
    /\ streams[s].emitted < MaxSrcChunks
    /\ streams' = [streams EXCEPT ![s].emitted = @ + 1]
    /\ hops' = [c \in AllCalls |->
                  [h \in DOMAIN hops[c] |->
                      IF <<c, h>> \in streams[s].listeners
                      THEN ReqWrite(hops[c][h], SrcChunk(streams[s].emitted + 1))
                      ELSE hops[c][h]]]
    /\ UNCHANGED <<family, inst, agents, configured, entry, todo, call, heap, cbLog>>

\* The 'end' listeners _requestWriter put on stream s.
SrcEnd(s) ==
    /\ streams[s].listeners # {}
    /\ ~ streams[s].ended
    /\ streams[s].emitted = MaxSrcChunks
    /\ streams' = [streams EXCEPT ![s].ended = TRUE]
    /\ hops' = [c \in AllCalls |->
                  [h \in DOMAIN hops[c] |->
                      IF <<c, h>> \in streams[s].listeners
                      THEN ReqEnd(hops[c][h])
                      ELSE hops[c][h]]]
    /\ UNCHANGED <<family, inst, agents, configured, entry, todo, call, heap, cbLog>>

----------------------------------------------------------------------------
\* The global agents of http and https, as node makes them.
AgentDefaults == [maxSockets |-> JsNumber("Infinity"), maxFreeSockets |-> JsNumber("256")]

GlobalAgents == [http |-> AgentDefaults, https |-> AgentDefaults]

\* No call of configureGlobalAgent yet.
NotConfigured == [count |-> 0, options |-> UndefinedArg, before |-> GlobalAgents]

InitWith(fam, calls, members) ==
    /\ family = fam
    /\ inst \in members
    /\ entry = [c \in AllCalls |-> NoEntry]
    /\ todo = calls
    /\ call = [c \in AllCalls |-> 0]
    /\ heap = <<>>
    /\ streams = <<>>
    /\ hops = [c \in AllCalls |-> <<>>]
    /\ cbLog = [c \in AllCalls |-> <<>>]
    /\ agents = GlobalAgents
    /\ configured = NotConfigured

InitOf(fam, calls) == InitWith(fam, calls, {WebReq})

Init == InitOf("dispatch", {"A"})

InitBody == InitOf("body", {"A"})

InitTwo == InitOf("two", {"A", "B"})

InitEntry == InitOf("entry", {"A"})

InitDefaults == InitWith("defaults", {"A"}, InstInputs)

InitCodec == InitOf("codec", {"A"})

InitParams == InitOf("params", {"A"})

InitFile == InitOf("file", {"A"})

InitCertificate == InitOf("certificate", {"A"})

Next ==
    \/ \E c \in AllCalls : Request(c)
    \/ \E c \in AllCalls : Respond(c)
    \/ \E c \in AllCalls : Data(c)
    \/ \E c \in AllCalls : End(c)
    \/ \E c \in AllCalls : Error(c)
    \/ \E c \in AllCalls : Finish(c)
    \/ \E s \in DOMAIN streams : SrcData(s)
    \/ \E s \in DOMAIN streams : SrcEnd(s)

Spec == Init /\ [][Next]_vars

SpecBody == InitBody /\ [][Next]_vars

SpecTwo == InitTwo /\ [][Next]_vars

SpecEntry == InitEntry /\ [][Next]_vars

SpecDefaults == InitDefaults /\ [][Next]_vars

SpecCodec == InitCodec /\ [][Next]_vars

SpecParams == InitParams /\ [][Next]_vars

SpecFile == InitFile /\ [][Next]_vars

SpecCertificate == InitCertificate /\ [][Next]_vars

\* The transport answers every finalized request with a complete response
\* unless it answers with an error, and a source stream that is read runs to
\* its end.
RespondFinalized(c) == Respond(c) /\ hops[c][Last(c)].ends > 0

Fairness ==
    /\ \A c \in AllCalls : WF_vars(RespondFinalized(c))
    /\ \A c \in AllCalls : WF_vars(Data(c))
    /\ \A c \in AllCalls : WF_vars(End(c))
    /\ WF_vars(\E s \in DOMAIN streams : SrcData(s))
    /\ WF_vars(\E s \in DOMAIN streams : SrcEnd(s))

SpecBodyLive == InitBody /\ [][Next]_vars /\ Fairness

----------------------------------------------------------------------------
\* The promise that resolves whatever its callback is invoked with.
Promise_AlwaysResolves(log) ==
    IF log = <<>> THEN [state |-> "pending", err |-> Null, res |-> NoRes]
    ELSE [state |-> "resolved", err |-> Null, res |-> log[1].res]

\* The promise request() returns when no callback is passed: settled by the
\* first invocation of the callback it hands to _request.
Promise(log) ==
    IF log = <<>> THEN [state |-> "pending", err |-> Null, res |-> NoRes]
    ELSE IF log[1].err # Null
    THEN [state |-> "rejected", err |-> log[1].err, res |-> NoRes]
    ELSE [state |-> "resolved", err |-> Null, res |-> log[1].res]

Options(c) == heap[call[c]]

----------------------------------------------------------------------------
\* A client that assigns to the members of the instance at any time.
InFlightInstInputs ==
    {WebReq,
     [WebReq EXCEPT !.parse = FALSE],
     [WebReq EXCEPT !.followRedirects = TRUE, !.maxRedirects = 1],
     [WebReq EXCEPT !.stream = TRUE, !.parse = FALSE, !.followRedirects = TRUE,
                    !.maxRedirects = 1]}

SetDefaults ==
    /\ \E members \in InFlightInstInputs :
          /\ members # inst
          /\ inst' = members
    /\ UNCHANGED <<family, agents, configured, entry, todo, call, heap, streams,
                   hops, cbLog>>

InitInFlight == InitOf("inflight", {"A"})

NextInFlight ==
    \/ \E c \in AllCalls : Request(c)
    \/ \E c \in AllCalls : Respond(c)
    \/ \E c \in AllCalls : Data(c)
    \/ \E c \in AllCalls : End(c)
    \/ \E c \in AllCalls : Error(c)
    \/ \E c \in AllCalls : Finish(c)
    \/ \E s \in DOMAIN streams : SrcData(s)
    \/ \E s \in DOMAIN streams : SrcEnd(s)
    \/ SetDefaults

SpecInFlight == InitInFlight /\ [][NextInFlight]_vars

----------------------------------------------------------------------------
\* The version of the client with bodyOnly and configureGlobalAgent.

\* The instance of that version after construction.
BodyOnlyWebReq ==
    [parse |-> TRUE, bodyOnly |-> TRUE, followRedirects |-> FALSE,
     maxRedirects |-> DefaultMaxRedirects]

\* The values of bodyOnly the client has assigned to the instance.
BodyOnlyInstInputs == {[BodyOnlyWebReq EXCEPT !.bodyOnly = b] : b \in BOOLEAN}

\* request() that takes bodyOnly from the instance alone.
BodyOnly_MergeOptions_InstanceOnly(options, this) ==
    LET o1 == Put(options, "parse", Get(options, "parse", this.parse))
        o2 == Put(o1, "bodyOnly", this.bodyOnly)
        o3 == Put(o2, "followRedirects",
                  Get(options, "followRedirects", this.followRedirects))
        o4 == Put(o3, "maxRedirects", Get(options, "maxRedirects", this.maxRedirects))
    IN  Put(o4, "redirects", 0)

\* request(): the defaults of the instance and the counter written onto the
\* options object.
BodyOnly_MergeOptions(options, this) ==
    LET o1 == Put(options, "parse", Get(options, "parse", this.parse))
        o2 == Put(o1, "bodyOnly", Get(options, "bodyOnly", this.bodyOnly))
        o3 == Put(o2, "followRedirects",
                  Get(options, "followRedirects", this.followRedirects))
        o4 == Put(o3, "maxRedirects", Get(options, "maxRedirects", this.maxRedirects))
    IN  Put(o4, "redirects", 0)

\* _request up to its return: the handle, with the body written when there
\* is one that is not empty, and ended.
BodyOnly_request(uri, options) ==
    LET parsedUrl == UrlParse(uri)
        built == createRequestOptions(parsedUrl, options)
        requestOptions == IF Has(options, "agent") THEN Put(built, "agent", "new Agent")
                          ELSE built
        after == IF Has(options, "headers")
                 THEN Put(options, "headers", RequestHeaders(parsedUrl, options))
                 ELSE options
        req == ClientRequest(parsedUrl.href, requestOptions)
    IN  [req |-> IF Has(options, "body") /\ options["body"].val # <<>>
                 THEN ReqEnd(ReqWrite(req, options["body"].val))
                 ELSE ReqEnd(req),
         options |-> after]

\* A call of request(), up to its return.
BodyOnly_Request(c) ==
    /\ c \in todo
    /\ \E a \in Arguments(family, DOMAIN heap) :
       \E third \in CallbackArguments(family, a) :
          LET second == IF a.kind = "none" THEN UndefinedArg
                        ELSE IF a.kind = "function" THEN FunctionArg
                        ELSE ObjectArg(a.obj)
              n == NormalizeArgs(second, third)
              options == IF n.options.type = "undefined" THEN [method |-> "GET"]
                         ELSE n.options.obj
              opts == BodyOnly_MergeOptions(options, inst)
              r == BodyOnly_request(FirstUri, opts)
          IN  /\ heap' = Append(heap, r.options)
              /\ call' = [call EXCEPT ![c] = Len(heap) + 1]
              /\ hops' = [hops EXCEPT ![c] = <<r.req>>]
              /\ entry' = [entry EXCEPT ![c] =
                             [via |-> "request", second |-> second.type,
                              third |-> third.type, callback |-> n.callback.type,
                              returns |-> Returns(n.callback), this |-> inst,
                              given |-> IF second.type = "object" THEN a.obj
                                        ELSE EmptyObj,
                              normalized |-> opts]]
    /\ todo' = todo \ {c}
    /\ UNCHANGED <<family, inst, agents, configured, streams, cbLog>>

\* The response callback of proto.request, for the response res to hop h.
BodyOnly_OnResponse(c, h, res) ==
    LET options == heap[call[c]]
        req == [hops[c][h] EXCEPT !.responded = TRUE, !.res = res]
    IN  IF ShouldRedirect(res, options)
        THEN LET o2 == Put(options, "redirects", options["redirects"] + 1)
                 r == BodyOnly_request(res.headers["location"], o2)
             IN  /\ Len(hops[c]) < MaxHops
                 /\ heap' = [heap EXCEPT ![call[c]] = r.options]
                 /\ hops' = [hops EXCEPT ![c] =
                                Append([@ EXCEPT ![h] = [req EXCEPT !.handler = "redirect"]],
                                       r.req)]
        ELSE /\ hops' = [hops EXCEPT ![c][h] = [req EXCEPT !.handler = "buffer"]]
             /\ UNCHANGED heap

BodyOnly_Respond(c) ==
    /\ Started(c)
    /\ ~ hops[c][Last(c)].responded
    /\ hops[c][Last(c)].error = Null
    /\ \E st \in StatusInputs(family), hs \in HeaderInputs(family, Last(c)) :
          BodyOnly_OnResponse(c, Last(c), Response(st, hs, NoBody))
    /\ UNCHANGED <<family, inst, agents, configured, entry, todo, call, streams, cbLog>>

\* The 'end' listener: the body alone, or a Response, for the callback.
BodyOnly_OnEnd(c, h) ==
    LET req == hops[c][h]
        options == heap[call[c]]
        body == IF options["parse"] THEN parseResponseBody(req.res.headers, req.data)
                ELSE StringValue(Concat(req.data))
        response == IF options["bodyOnly"] = TRUE THEN body
                    ELSE Response(req.res.statusCode, req.res.headers, body)
    IN  /\ hops' = [hops EXCEPT ![c][h] = [req EXCEPT !.resEnded = TRUE]]
        /\ cbLog' = [cbLog EXCEPT ![c] = Append(@, Callback(Null, response, h))]

BodyOnly_End(c) ==
    /\ Started(c)
    /\ \E h \in DOMAIN hops[c] :
          /\ Flowing(hops[c][h])
          /\ BodyOnly_OnEnd(c, h)
    /\ UNCHANGED <<family, inst, agents, configured, entry, todo, call, heap, streams>>

\* What is passed to configureGlobalAgent: nothing, or an object with
\* maxSockets, maxFreeSockets, both or neither.
GlobalAgentInputs ==
    {UndefinedArg}
    \cup {ObjectArg(Obj([maxSockets |-> a, maxFreeSockets |-> b])) :
             a \in {{}, {JsNumber("200")}},
             b \in {{}, {JsNumber("210")}}}

\* The global agents before the client configures them: as node makes them,
\* or with a setting the program has assigned on one of them.
AgentsInputs ==
    {GlobalAgents, [GlobalAgents EXCEPT !.http.maxSockets = JsNumber("5")]}

\* configureGlobalAgent that sets the agent of http alone.
configureGlobalAgent_HttpOnly(globals, options) ==
    LET opts == IF options.type # "undefined" THEN options.obj ELSE EmptyObj
        set(agent) ==
            [maxSockets |-> Get(opts, "maxSockets", agent.maxSockets),
             maxFreeSockets |-> Get(opts, "maxFreeSockets", agent.maxFreeSockets)]
    IN  [http |-> set(globals.http), https |-> globals.https]

\* configureGlobalAgent: the global agents after it.
configureGlobalAgent(globals, options) ==
    LET opts == IF options.type # "undefined" THEN options.obj ELSE EmptyObj
        set(agent) ==
            [maxSockets |-> Get(opts, "maxSockets", agent.maxSockets),
             maxFreeSockets |-> Get(opts, "maxFreeSockets", agent.maxFreeSockets)]
    IN  [http |-> set(globals.http), https |-> set(globals.https)]

ConfigureGlobalAgent ==
    /\ configured.count < MaxConfigures
    /\ \E options \in GlobalAgentInputs :
          /\ agents' = configureGlobalAgent(agents, options)
          /\ configured' = [count |-> configured.count + 1, options |-> options,
                            before |-> agents]
    /\ UNCHANGED <<family, inst, entry, todo, call, heap, streams, hops, cbLog>>

InitBodyOnly ==
    /\ family = "bodyOnly"
    /\ inst \in BodyOnlyInstInputs
    /\ entry = [c \in AllCalls |-> NoEntry]
    /\ todo = {"A"}
    /\ call = [c \in AllCalls |-> 0]
    /\ heap = <<>>
    /\ streams = <<>>
    /\ hops = [c \in AllCalls |-> <<>>]
    /\ cbLog = [c \in AllCalls |-> <<>>]
    /\ agents \in AgentsInputs
    /\ configured = [NotConfigured EXCEPT !.before = agents]

NextBodyOnly ==
    \/ \E c \in AllCalls : BodyOnly_Request(c)
    \/ \E c \in AllCalls : BodyOnly_Respond(c)
    \/ \E c \in AllCalls : Data(c)
    \/ \E c \in AllCalls : BodyOnly_End(c)
    \/ \E c \in AllCalls : Error(c)
    \/ ConfigureGlobalAgent

SpecBodyOnly == InitBodyOnly /\ [][NextBodyOnly]_vars

----------------------------------------------------------------------------
\* C1: a response is followed (one more transport request, to the URI of its
\* location header, and the redirect counter one higher) exactly when its
\* status is in [300,400), followRedirects is true, the method is not DELETE,
\* redirects < maxRedirects and it has a location header; otherwise the
\* counter and the number of transport requests stay and the response is
\* handed to one of the response handlers.
C1_Followed(c, h) ==
    /\ hops'[c][h].res.statusCode >= 300
    /\ hops'[c][h].res.statusCode < 400
    /\ Options(c)["followRedirects"] = TRUE
    /\ Get(Options(c), "method", Undefined) # "DELETE"
    /\ Options(c)["redirects"] < Options(c)["maxRedirects"]
    /\ "location" \in DOMAIN hops'[c][h].res.headers

C1_ResponseStep(c) ==
    /\ Started(c)
    /\ ~ hops[c][Last(c)].responded
    /\ hops'[c][Last(c)].responded

C1_RedirectIffFiveConditions ==
    [][\A c \in AllCalls :
         C1_ResponseStep(c) =>
            IF C1_Followed(c, Last(c))
            THEN /\ Len(hops'[c]) = Last(c) + 1
                 /\ hops'[c][Last(c) + 1].uri = hops'[c][Last(c)].res.headers["location"]
                 /\ heap'[call[c]]["redirects"] = Options(c)["redirects"] + 1
                 /\ hops'[c][Last(c)].handler = "redirect"
                 /\ cbLog'[c] = cbLog[c]
            ELSE /\ Len(hops'[c]) = Last(c)
                 /\ heap'[call[c]]["redirects"] = Options(c)["redirects"]
                 /\ hops'[c][Last(c)].handler \in {"stream", "file", "buffer"}]_vars

\* A followed 302-like response, then a 3xx without location that is handled.
C1_Witness ==
    \E c \in AllCalls :
        /\ Len(hops[c]) = 2
        /\ hops[c][1].handler = "redirect"
        /\ hops[c][2].responded
        /\ hops[c][2].res.statusCode = 300
        /\ ~ Has(hops[c][2].res.headers, "location")
        /\ hops[c][2].handler = "buffer"
        /\ Options(c)["redirects"] = 1
        /\ Options(c)["maxRedirects"] = DefaultMaxRedirects

\* C2: the redirect counter of a call starts at 0, never decreases, stays
\* within 0..maxRedirects, and the call opens at most maxRedirects + 1
\* transport requests.
C2_Bounded ==
    \A c \in AllCalls :
        Started(c) /\ Options(c)["maxRedirects"] >= 0 =>
            /\ Options(c)["redirects"] >= 0
            /\ Options(c)["redirects"] <= Options(c)["maxRedirects"]
            /\ Len(hops[c]) <= Options(c)["maxRedirects"] + 1

C2_CounterBounded ==
    /\ [] C2_Bounded
    /\ [][\A c \in AllCalls :
            /\ (~ Started(c) /\ call'[c] # 0) => heap'[call'[c]]["redirects"] = 0
            /\ Started(c) => heap'[call[c]]["redirects"] >= Options(c)["redirects"]]_vars

\* Every response of the chain was a 3xx with a location, and the last one
\* was not followed because the counter had reached maxRedirects.
C2_Witness ==
    \E c \in AllCalls :
        /\ Started(c)
        /\ Options(c)["maxRedirects"] = 1
        /\ Options(c)["redirects"] = 1
        /\ Len(hops[c]) = 2
        /\ hops[c][2].responded
        /\ hops[c][2].res.statusCode = 300
        /\ Has(hops[c][2].res.headers, "location")
        /\ hops[c][2].handler # "redirect"

\* C3: when the handle of a call that has delivered nothing yet emits an
\* error, the callback is invoked with exactly that error and no result, the
\* promise rejects with it, and no transport request is opened.
C3_ErrorStep(c, h) ==
    /\ h \in DOMAIN hops[c]
    /\ hops[c][h].error = Null
    /\ hops'[c][h].error # Null

C3_ErrorVerbatimNoRetry ==
    [][\A c \in AllCalls : \A h \in 1..MaxHops :
         C3_ErrorStep(c, h) /\ cbLog[c] = <<>> =>
            /\ hops'[c][h].error = ErrorOf(h)
            /\ cbLog'[c] = <<[err |-> ErrorOf(h), res |-> NoRes, hop |-> h]>>
            /\ Promise(cbLog'[c]) = [state |-> "rejected", err |-> ErrorOf(h), res |-> NoRes]
            /\ Len(hops'[c]) = Len(hops[c])]_vars

\* The handle of the second hop failed before anything was delivered.
C3_Witness ==
    \E c \in AllCalls :
        /\ Len(hops[c]) = 2
        /\ hops[c][2].error = ErrorOf(2)
        /\ ~ hops[c][2].responded
        /\ Len(cbLog[c]) = 1
        /\ cbLog[c][1].err = ErrorOf(2)
        /\ Promise(cbLog[c]).state = "rejected"

\* C4: the callback of a call is invoked at most once.
C4_CallbackAtMostOnce ==
    \A c \in AllCalls : Len(cbLog[c]) <= 1

\* C5: an error is delivered only for an error event of a handle of the call;
\* every response that is handled, whatever its status and body, is delivered
\* as a success that carries the status code of that response.
C5_Handled(req) ==
    \/ req.handler = "stream"
    \/ req.handler \in {"buffer", "file"} /\ req.resEnded

C5_FailsOnlyOnTransportError ==
    \A c \in AllCalls :
        /\ \A i \in DOMAIN cbLog[c] :
              IF cbLog[c][i].err # Null
              THEN hops[c][cbLog[c][i].hop].error = cbLog[c][i].err
              ELSE /\ hops[c][cbLog[c][i].hop].responded
                   /\ cbLog[c][i].res.statusCode = hops[c][cbLog[c][i].hop].res.statusCode
        /\ \A h \in DOMAIN hops[c] :
              C5_Handled(hops[c][h]) =>
                 \E i \in DOMAIN cbLog[c] :
                    /\ cbLog[c][i].hop = h
                    /\ cbLog[c][i].err = Null
                    /\ cbLog[c][i].res.statusCode = hops[c][h].res.statusCode

\* A 400 whose JSON body does not parse, delivered as a success; no error
\* event occurred.
C5_Witness ==
    \E c \in AllCalls :
        /\ Len(cbLog[c]) = 1
        /\ cbLog[c][1].err = Null
        /\ cbLog[c][1].res.statusCode = 400
        /\ cbLog[c][1].res.body = StringValue(<<"Malformed JSON.">>)
        /\ ErrorCount(c) = 0

\* C9: a response that is not followed goes to the stream handler when stream
\* is true, else to the file handler when path is set and the method is GET,
\* else to the buffering handler; with stream true the live response is
\* handed over at once and no chunk of it is kept.
C9_Expected(options) ==
    IF options["stream"] = TRUE THEN "stream"
    ELSE IF "path" \in DOMAIN options /\ Get(options, "method", "GET") = "GET" THEN "file"
    ELSE "buffer"

C9_RoutedByPriority ==
    \A c \in AllCalls : \A h \in DOMAIN hops[c] :
        hops[c][h].responded /\ hops[c][h].handler # "redirect" =>
            /\ hops[c][h].handler = C9_Expected(Options(c))
            /\ hops[c][h].handler = "stream" =>
                  /\ hops[c][h].data = <<>>
                  /\ ~ hops[c][h].fileEnded
                  /\ \E i \in DOMAIN cbLog[c] :
                        cbLog[c][i] = [err |-> Null, hop |-> h,
                                       res |-> Response(hops[c][h].res.statusCode,
                                                        hops[c][h].res.headers, LiveBody)]
                  /\ \A i \in DOMAIN cbLog[c] :
                        cbLog[c][i].hop = h /\ cbLog[c][i].err = Null =>
                           cbLog[c][i].res.body = LiveBody
            /\ hops[c][h].handler = "buffer" => ~ hops[c][h].fileEnded

\* stream and path both set on a GET: the response went to the caller as a
\* stream, its chunks passed, and none was kept or written.
C9_Witness ==
    \E c \in AllCalls :
        /\ Started(c)
        /\ Options(c)["stream"] = TRUE
        /\ Has(Options(c), "path")
        /\ Get(Options(c), "method", "GET") = "GET"
        /\ hops[c][1].handler = "stream"
        /\ hops[c][1].sent # <<>>
        /\ hops[c][1].resEnded
        /\ hops[c][1].data = <<>>

\* C10: a result is delivered by the last hop of the chain; every hop before
\* it was followed, each request went to the location of the response before
\* it, the counter is the number of followed responses, and the status,
\* headers and body of the result are those of the last response.
C10_BodyOf(req, options) ==
    IF req.handler = "stream" THEN LiveBody
    ELSE IF req.handler = "file" THEN NullBody
    ELSE IF options["parse"] THEN parseResponseBody(req.res.headers, req.sent)
    ELSE StringValue(Concat(req.sent))

C10_ResultFromLastResponse ==
    \A c \in AllCalls : \A i \in DOMAIN cbLog[c] :
        cbLog[c][i].err = Null =>
            /\ cbLog[c][i].hop = Len(hops[c])
            /\ Options(c)["redirects"] = Len(hops[c]) - 1
            /\ hops[c][1].uri = FirstUri
            /\ \A n \in 1..(Len(hops[c]) - 1) :
                  /\ hops[c][n].handler = "redirect"
                  /\ hops[c][n].res.statusCode \in 300..399
                  /\ hops[c][n + 1].uri = hops[c][n].res.headers["location"]
                  /\ hops[c][n].data = <<>>
            /\ cbLog[c][i].res.statusCode = hops[c][Len(hops[c])].res.statusCode
            /\ cbLog[c][i].res.headers = hops[c][Len(hops[c])].res.headers
            /\ cbLog[c][i].res.body = C10_BodyOf(hops[c][Len(hops[c])], Options(c))

\* Two followed responses, then a 200 whose JSON body is delivered parsed.
C10_Witness ==
    \E c \in AllCalls :
        /\ Len(hops[c]) = 3
        /\ Options(c)["followRedirects"] = TRUE
        /\ Len(cbLog[c]) = 1
        /\ cbLog[c][1].res.statusCode = 200
        /\ cbLog[c][1].res.body = JsonValue(<<"{", "}">>)
        /\ hops[c][3].uri = LocationOf(2)

\* C6: two calls on one instance share no mutable state: the redirect
\* counter a call reads is the number of responses its own chain followed,
\* and it opens no more transport requests than it would alone.
C6_CounterOwnedByItsCall ==
    \A c \in AllCalls :
        Started(c) =>
            /\ Options(c)["redirects"] = Len(hops[c]) - 1
            /\ Len(hops[c]) <= Options(c)["maxRedirects"] + 1

\* C7: every call that was started eventually invokes its callback (settles
\* its promise).
C7_EveryCallCompletes ==
    \A c \in AllCalls : Started(c) ~> cbLog[c] # <<>>

\* C8: a handle gets one write with the whole body and then end for a string
\* or buffer body, end and no write without a body, one write per chunk the
\* source has emitted and end once the source has ended for a stream body;
\* end is issued at most once and no write follows it.
C8_BodyOf(c) == Options(c)["body"]

C8_WriteThenEnd ==
    \A c \in AllCalls : \A h \in DOMAIN hops[c] :
        /\ hops[c][h].ends <= 1
        /\ ~ hops[c][h].lateWrite
        /\ IF ~ Has(Options(c), "body")
           THEN hops[c][h].writes = <<>> /\ hops[c][h].ends = 1
           ELSE IF C8_BodyOf(c).kind # "stream"
           THEN hops[c][h].writes = <<C8_BodyOf(c).val>> /\ hops[c][h].ends = 1
           ELSE /\ hops[c][h].writes =
                      [i \in 1..streams[C8_BodyOf(c).sid].emitted |-> SrcChunk(i)]
                /\ hops[c][h].ends = IF streams[C8_BodyOf(c).sid].ended THEN 1 ELSE 0

\* C11: every re-issued request of a redirect chain carries the method and
\* the body of the first request of the call: once the body is complete
\* (at once for a string or buffer, when the source has ended for a stream),
\* what was written to the handle of hop n+1 is what was written to hop 1.
C11_BodyComplete(c) ==
    \/ ~ Has(Options(c), "body")
    \/ Options(c)["body"].kind # "stream"
    \/ streams[Options(c)["body"].sid].ended

C11_SameRequestOnEveryHop ==
    \A c \in AllCalls : \A h \in DOMAIN hops[c] :
        h > 1 =>
            /\ hops[c][h].method = hops[c][1].method
            /\ C11_BodyComplete(c) => hops[c][h].writes = hops[c][1].writes

\* C12: a call that enters by get, post, put, patch or delete opens every
\* transport request with the verb of that wrapper, whatever was passed as
\* options and callback.
C12_WrapperVerb ==
    \A c \in AllCalls : \A h \in DOMAIN hops[c] :
        entry[c].via # "request" => hops[c][h].method = Verb(entry[c].via)

\* C13: request() returns a promise exactly when no callback was passed; the
\* promise rejects with the error of the transport when the call fails and
\* resolves with the result when it succeeds; every invocation of the
\* callback carries either an error or a result, never both and never
\* neither.
C13_Failed(c) == \E h \in DOMAIN hops[c] : hops[c][h].error # Null

C13_Succeeded(c) == \E h \in DOMAIN hops[c] : C5_Handled(hops[c][h])

C13_PromiseOrCallback ==
    \A c \in AllCalls :
        Started(c) =>
            /\ entry[c].returns =
                  IF entry[c].second = "function" \/ entry[c].third = "function"
                  THEN Undefined ELSE "promise"
            /\ \A i \in DOMAIN cbLog[c] :
                  (cbLog[c][i].err # Null) # (cbLog[c][i].res # NoRes)
            /\ entry[c].returns = "promise" =>
                  LET p == Promise(cbLog[c])
                  IN  /\ p.state = "pending" <=> ~ C13_Failed(c) /\ ~ C13_Succeeded(c)
                      /\ C13_Failed(c) /\ ~ C13_Succeeded(c) =>
                            /\ p.state = "rejected"
                            /\ \E h \in DOMAIN hops[c] : hops[c][h].error = p.err
                            /\ p.res = NoRes
                      /\ C13_Succeeded(c) /\ ~ C13_Failed(c) =>
                            /\ p.state = "resolved"
                            /\ p.err = Null
                            /\ p.res.statusCode = hops[c][Last(c)].res.statusCode
                            /\ p.res.headers = hops[c][Last(c)].res.headers

\* A call with options and a callback whose transport failed: the callback
\* got the error alone and nothing was returned.
C13_Witness ==
    \E c \in AllCalls :
        /\ entry[c].second = "object"
        /\ entry[c].third = "function"
        /\ entry[c].returns = Undefined
        /\ Len(cbLog[c]) = 1
        /\ cbLog[c][1].err = ErrorOf(1)
        /\ cbLog[c][1].res = NoRes

\* C14: each of parse, stream, followRedirects and maxRedirects has, in a
\* call, the value of the per-call option when that is set (false and 0
\* included) and otherwise the value of the instance member when the call
\* started, and the call behaves by that value; a new instance has parse
\* true, stream false, followRedirects false, maxRedirects 3.
C14_Expected(c, k) ==
    IF k \in DOMAIN entry[c].given THEN entry[c].given[k] ELSE entry[c].this[k]

C14_PerCallOverDefault ==
    /\ WebReq = [stream |-> FALSE, parse |-> TRUE, followRedirects |-> FALSE,
                 maxRedirects |-> 3]
    /\ \A c \in AllCalls :
          Started(c) =>
             /\ \A k \in {"parse", "stream", "followRedirects", "maxRedirects"} :
                   Options(c)[k] = C14_Expected(c, k)
             /\ Len(hops[c]) > 1 => C14_Expected(c, "followRedirects") = TRUE
             /\ Len(hops[c]) <= C14_Expected(c, "maxRedirects") + 1
             /\ \A i \in DOMAIN cbLog[c] :
                   cbLog[c][i].err = Null =>
                      /\ cbLog[c][i].res.body = LiveBody
                            <=> C14_Expected(c, "stream") = TRUE
                      /\ cbLog[c][i].res.body.type = "json"
                            => C14_Expected(c, "parse") = TRUE
                      /\ cbLog[c][i].res.body = StringValue(<<"{", "}">>)
                            => C14_Expected(c, "parse") = FALSE

\* parse: false passed to an instance whose parse is true: the JSON text of
\* the response is delivered as a string.
C14_Witness ==
    \E c \in AllCalls :
        /\ Started(c)
        /\ Has(entry[c].given, "parse")
        /\ entry[c].given["parse"] = FALSE
        /\ entry[c].this.parse = TRUE
        /\ Has(entry[c].given, "maxRedirects")
        /\ entry[c].given["maxRedirects"] = 0
        /\ Len(cbLog[c]) = 1
        /\ cbLog[c][1].res.body = StringValue(<<"{", "}">>)

\* C15: request(uri, f) and every wrapper called as (uri, f) take f as the
\* callback: nothing is returned, the options are those of a call without
\* options, f is not used as the options object, and f gets the outcome.
C15_FunctionIsCallback ==
    \A c \in AllCalls :
        Started(c) /\ entry[c].second = "function" /\ entry[c].third = "undefined" =>
            /\ entry[c].callback = "function"
            /\ entry[c].returns = Undefined
            /\ DOMAIN Options(c) = {"method", "stream", "parse", "followRedirects",
                                    "maxRedirects", "redirects"}
            /\ \A k \in {"parse", "stream", "followRedirects", "maxRedirects"} :
                  Options(c)[k] = entry[c].this[k]
            /\ hops[c][Last(c)].resEnded => cbLog[c] # <<>>

\* post(uri, f): f was called with the result.
C15_Witness ==
    \E c \in AllCalls :
        /\ entry[c].via = "post"
        /\ entry[c].second = "function"
        /\ entry[c].third = "undefined"
        /\ Len(cbLog[c]) = 1
        /\ cbLog[c][1].err = Null
        /\ cbLog[c][1].res.statusCode = 200

\* C16: the buffering handler notifies the caller when the response has
\* ended and not before, with the status and the headers of that response
\* and the body made of all its chunks in the order the transport emitted
\* them: decoded by parseResponseBody when parse is true, the plain string
\* when parse is false.
C16_Body(req, options) ==
    IF options["parse"] = TRUE THEN parseResponseBody(req.res.headers, req.sent)
    ELSE [type |-> "string", text |-> Concat(req.sent)]

C16_BufferedAfterEnd ==
    \A c \in AllCalls : \A h \in DOMAIN hops[c] :
        hops[c][h].handler = "buffer" =>
            /\ hops[c][h].resEnded <=>
                  \E i \in DOMAIN cbLog[c] : cbLog[c][i].hop = h /\ cbLog[c][i].err = Null
            /\ \A i \in DOMAIN cbLog[c] :
                  cbLog[c][i].hop = h /\ cbLog[c][i].err = Null =>
                     /\ cbLog[c][i].res.statusCode = hops[c][h].res.statusCode
                     /\ cbLog[c][i].res.headers = hops[c][h].res.headers
                     /\ cbLog[c][i].res.body = C16_Body(hops[c][h], Options(c))

\* The chunks { and } of a JSON response arrived in this order and the
\* caller got the parsed value.
C16_Witness ==
    \E c \in AllCalls :
        /\ Started(c)
        /\ hops[c][1].handler = "buffer"
        /\ hops[c][1].sent = << <<"{">>, <<"}">> >>
        /\ hops[c][1].res.headers = [x \in {"content-type"} |-> JsonCharsetCT]
        /\ Len(cbLog[c]) = 1
        /\ cbLog[c][1].res.statusCode = 400
        /\ cbLog[c][1].res.body = JsonValue(<<"{", "}">>)

\* C17: in a file download the chunks go to the write stream in the order of
\* the transport, and the caller is notified, with body null, only when the
\* write stream has finished writing them.
C17_NotifiedAfterFinish ==
    \A c \in AllCalls : \A i \in DOMAIN cbLog[c] :
        cbLog[c][i].err = Null /\ hops[c][cbLog[c][i].hop].handler = "file" =>
            /\ cbLog[c][i].res.body = NullBody
            /\ hops[c][cbLog[c][i].hop].data = hops[c][cbLog[c][i].hop].sent
            /\ hops[c][cbLog[c][i].hop].fileFinished

\* C18: in the result of a call that does not stream, body is null exactly
\* when the call was a file download or the response had no payload.
C18_NullIffFileOrEmpty ==
    \A c \in AllCalls : \A i \in DOMAIN cbLog[c] :
        cbLog[c][i].err = Null /\ hops[c][cbLog[c][i].hop].handler # "stream" =>
            (cbLog[c][i].res.body = NullBody
                <=> \/ hops[c][cbLog[c][i].hop].handler = "file"
                    \/ hops[c][cbLog[c][i].hop].sent = <<>>)

\* The MIME type a Content-Type value declares: the part before the first
\* ';', without whitespace, in lower case.
C19_LowerCase(token) ==
    IF token = "Application/JSON" THEN "application/json" ELSE token

C19_DeclaredMime(value) ==
    LET part == SplitFirst(value)
        bare == SelectSeq(part, LAMBDA ch : ~ IsSpace(ch))
    IN  [i \in DOMAIN bare |-> C19_LowerCase(bare[i])]

C19_DeclaresJson(headers) ==
    /\ "content-type" \in DOMAIN headers
    /\ C19_DeclaredMime(headers["content-type"]) = <<"application/json">>

\* C19: with parse true, a response that declares application/json is
\* delivered as a success whose body is the parsed value when its bytes are
\* JSON and the string 'Malformed JSON.' when they are not.
C19_JsonOrSentinel ==
    \A c \in AllCalls : \A h \in DOMAIN hops[c] :
        /\ hops[c][h].handler = "buffer"
        /\ hops[c][h].resEnded
        /\ Options(c)["parse"] = TRUE
        /\ C19_DeclaresJson(hops[c][h].res.headers)
        => \E i \in DOMAIN cbLog[c] :
              /\ cbLog[c][i].hop = h
              /\ cbLog[c][i].err = Null
              /\ cbLog[c][i].res.body =
                    IF Concat(hops[c][h].sent) = <<"{", "}">>
                    THEN [type |-> "json", text |-> <<"{", "}">>]
                    ELSE [type |-> "string", text |-> <<"Malformed JSON.">>]

\* C20: with parse true, a response that declares another MIME type than
\* application/json is delivered with its bytes as a string, JSON or not; a
\* response without Content-Type is delivered parsed when its bytes are JSON
\* and as the string of its bytes when they are not; 'Malformed JSON.' is
\* produced in neither case.
C20_VerbatimOrOpportunistic ==
    \A c \in AllCalls : \A i \in DOMAIN cbLog[c] :
        LET req == hops[c][cbLog[c][i].hop]
        IN  /\ cbLog[c][i].err = Null
            /\ req.handler = "buffer"
            /\ Options(c)["parse"] = TRUE
            /\ ~ C19_DeclaresJson(req.res.headers)
            => /\ cbLog[c][i].res.body # [type |-> "string", text |-> <<"Malformed JSON.">>]
               /\ cbLog[c][i].res.body =
                     IF "content-type" \notin DOMAIN req.res.headers
                        /\ Concat(req.sent) = <<"{", "}">>
                     THEN [type |-> "json", text |-> <<"{", "}">>]
                     ELSE [type |-> "string", text |-> Concat(req.sent)]

\* A text/plain response whose bytes are the JSON text {}: delivered as the
\* string.
C20_Witness ==
    \E c \in AllCalls :
        /\ Started(c)
        /\ Options(c)["parse"] = TRUE
        /\ hops[c][1].res.headers = [x \in {"content-type"} |-> TextCT]
        /\ hops[c][1].sent = << <<"{">>, <<"}">> >>
        /\ Len(cbLog[c]) = 1
        /\ cbLog[c][1].res.body = StringValue(<<"{", "}">>)

\* The lower-case form of a header name.
C21_LowerName(k) ==
    IF k \in {"Content-Type", "content-type", "CONTENT-TYPE"} THEN "content-type"
    ELSE IF k \in {"Content-Length", "content-length", "Content-length"}
    THEN "content-length"
    ELSE IF k = "Host" THEN "host"
    ELSE IF k = "Accept" THEN "accept"
    ELSE k

\* The names under which a headers object holds the header of a lower-case name.
C21_Named(headers, lower) == {k \in DOMAIN headers : C21_LowerName(k) = lower}

\* The headers proto.request is called with, and those the caller gave.
C21_Dispatched(req) == Get(req.params, "headers", EmptyObj)

C21_Given(c) == Get(entry[c].given, "headers", EmptyObj)

\* C21: a POST, PUT or PATCH request with a body carries Content-Type:
\* application/json when the caller gave no Content-Type under any casing of
\* the name, and only the caller's entry, unchanged, when they gave one; a
\* GET or DELETE request, or one without a body, gets no Content-Type entry.
C21_ContentTypeOnce ==
    \A c \in AllCalls : \A h \in DOMAIN hops[c] :
        LET sent == C21_Dispatched(hops[c][h])
            given == C21_Given(c)
            names == C21_Named(sent, "content-type")
        IN  IF /\ hops[c][h].method \in {"POST", "PUT", "PATCH"}
               /\ Has(Options(c), "body")
               /\ C21_Named(given, "content-type") = {}
            THEN /\ Cardinality(names) = 1
                 /\ \A k \in names : sent[k] = JsonCT
            ELSE /\ names = C21_Named(given, "content-type")
                 /\ \A k \in names : sent[k] = given[k]

\* C22: a POST, PUT or PATCH request with a string body and no Content-Length
\* from the caller carries Content-Length equal to the byte length of the
\* string; with a buffer or stream body none is inferred; a Content-Length
\* the caller gave is the only one and keeps its value.
C22_ContentLengthOnce ==
    \A c \in AllCalls : \A h \in DOMAIN hops[c] :
        LET sent == C21_Dispatched(hops[c][h])
            given == C21_Given(c)
            names == C21_Named(sent, "content-length")
            withBody == /\ hops[c][h].method \in {"POST", "PUT", "PATCH"}
                        /\ Has(Options(c), "body")
        IN  IF C21_Named(given, "content-length") # {}
            THEN /\ names = C21_Named(given, "content-length")
                 /\ \A k \in names : sent[k] = given[k]
            ELSE IF withBody /\ Options(c)["body"].kind = "string"
            THEN /\ Cardinality(names) = 1
                 /\ \A k \in names : sent[k] = ByteLength(Options(c)["body"].val)
            ELSE withBody => names = {}

\* C23: the body of a call is a read stream of the file at path exactly when
\* the method is POST or PUT, path is set and the caller gave no body; a body
\* the caller gave (serialized when it is a structured value) is the body
\* that is transmitted, also when path is set.
C23_BodyGiven(c) ==
    IF entry[c].given["body"].kind = "object"
    THEN JSONstringify(entry[c].given["body"])
    ELSE entry[c].given["body"]

C23_UploadOnlyWithoutBody ==
    \A c \in AllCalls :
        Started(c) =>
            IF Has(entry[c].given, "body")
            THEN Has(Options(c), "body") /\ Options(c)["body"] = C23_BodyGiven(c)
            ELSE Has(Options(c), "body") <=>
                    /\ hops[c][1].method \in {"POST", "PUT"}
                    /\ Has(entry[c].given, "path")

\* C24: a structured body reaches the handle as one write of its JSON
\* serialization; a string or a buffer as one write of itself; a stream as
\* the chunks that stream has emitted.
C24_Written(c) ==
    LET body == entry[c].given["body"]
    IN  IF body.kind = "object" THEN <<JSONstringify(body).val>>
        ELSE IF body.kind = "stream"
        THEN [i \in 1..streams[body.sid].emitted |-> SrcChunk(i)]
        ELSE <<body.val>>

C24_SerializedOrUnchanged ==
    \A c \in AllCalls :
        (Started(c) /\ Has(entry[c].given, "body")) =>
            hops[c][1].writes = C24_Written(c)

\* The parts of a URI: its scheme, the host with the port after the slashes,
\* the host alone and the port alone (Null: none).
C25_PathStart(uri) == IndexFrom(uri, "/", 3)

C25_HostAndPort(uri) == SubSeq(uri, 3, C25_PathStart(uri) - 1)

C25_Port(uri) ==
    IF Len(C25_HostAndPort(uri)) = 3 THEN C25_HostAndPort(uri)[3] ELSE "null"

\* C25: with a proxy, every request of the call is opened to the host and the
\* port of the proxy URI, with the whole URI of the target as path and a
\* Host header of the scheme, '//' and the host of the target; without one,
\* it is opened to the host and port of the target (the default port of the
\* scheme when the URI names none), with the path and query of the target as
\* path and no Host header.
C25_ProxyRetargets ==
    \A c \in AllCalls : \A h \in DOMAIN hops[c] :
        LET uri == hops[c][h].uri
            params == hops[c][h].params
            headers == C21_Dispatched(hops[c][h])
        IN  IF Has(Options(c), "proxy")
            THEN /\ params["host"] = C25_HostAndPort(Options(c)["proxy"])[1]
                 /\ params["port"].val = C25_Port(Options(c)["proxy"])
                 /\ params["path"] = uri
                 /\ Has(headers, "Host")
                 /\ headers["Host"] = <<uri[1], "//">> \o C25_HostAndPort(uri)
            ELSE /\ params["host"] = C25_HostAndPort(uri)[1]
                 /\ params["port"].val =
                        IF C25_Port(uri) # "null" THEN C25_Port(uri)
                        ELSE IF uri[1] = "https:" THEN "443" ELSE "80"
                 /\ params["path"] = SubSeq(uri, C25_PathStart(uri), Len(uri))
                 /\ C21_Named(headers, "host") = {}

\* A redirect followed through the proxy, after a first request to an https
\* target with a port and a query.
C25_Witness ==
    \E c \in AllCalls :
        /\ Len(hops[c]) = 2
        /\ Has(Options(c), "proxy")
        /\ hops[c][1].uri[1] = "https:"
        /\ hops[c][1].params["host"] = "proxy"
        /\ hops[c][1].params["port"].val = "8080"
        /\ hops[c][1].params["path"] =
              <<"https:", "//", "h2", ":", "8443", "/", "a", "/", "f", "?", "q=1">>
        /\ hops[c][1].params["headers"]["Host"] = <<"https:", "//", "h2", ":", "8443">>
        /\ hops[c][2].params["path"] = LocationOf(1)
        /\ hops[c][2].params["headers"]["Host"] = <<"https:", "//", "u1">>

\* The keys a certificate option may hold.
C26_CertificateKeys == {"ca", "cert", "key", "passphrase", "pfx"}

\* C26: the parameters of a request to an https target of a call with a
\* certificate hold every key of the certificate with its value; those of a
\* request to an http target, or of a call without a certificate, hold none.
C26_CertificateOnlyOnHttps ==
    \A c \in AllCalls : \A h \in DOMAIN hops[c] :
        LET params == hops[c][h].params
        IN  IF hops[c][h].uri[1] = "https:" /\ Has(Options(c), "certificate")
            THEN \A k \in DOMAIN Options(c)["certificate"] :
                    Has(params, k) /\ params[k] = Options(c)["certificate"][k]
            ELSE DOMAIN params \cap C26_CertificateKeys = {}

\* A certificate, key and passphrase on a request to an https target, and on
\* the request that follows its redirect.
C26_Witness ==
    \E c \in AllCalls :
        /\ Len(hops[c]) = 2
        /\ hops[c][1].uri[1] = "https:"
        /\ \A h \in 1..2 :
              /\ {"cert", "key", "passphrase"} \subseteq DOMAIN hops[c][h].params
              /\ hops[c][h].params["cert"] = "CERT"
              /\ hops[c][h].params["key"] = "KEY"
              /\ hops[c][h].params["passphrase"] = "PASS"

\* C27: every request of a call with an agent option is opened with that very
\* agent (false when the option is false), and the parameters of a request
\* of a call without one have no agent field.
C27_AgentAsGiven ==
    \A c \in AllCalls : \A h \in DOMAIN hops[c] :
        IF Has(entry[c].given, "agent")
        THEN /\ Has(hops[c][h].params, "agent")
             /\ hops[c][h].params["agent"] = entry[c].given["agent"]
        ELSE ~ Has(hops[c][h].params, "agent")

\* The agent of the caller on the first request and on the request that
\* follows its redirect.
C27_Witness ==
    \E c \in AllCalls :
        /\ Len(hops[c]) = 2
        /\ Has(entry[c].given, "agent")
        /\ entry[c].given["agent"] = "agent1"
        /\ \A h \in 1..2 : /\ Has(hops[c][h].params, "agent")
                            /\ hops[c][h].params["agent"] = "agent1"

\* The sources of the name of a download: the filename option, the
\* Content-Disposition header of the response and the URI of the request.
C28_Explicit(c) ==
    Has(entry[c].given, "filename") /\ ~ entry[c].given["filename"].isNull

C28_Disposition(req) == Get(req.res.headers, "content-disposition", <<>>)

C28_Places(v, t) == {i \in 1..Len(v) : v[i] = t}

\* The text between the first '=' of a header and the next one (its end).
C28_AfterEquals(v) ==
    LET eqs == C28_Places(v, "=")
        i1 == CHOOSE i \in eqs : \A j \in eqs : i <= j
        rest == eqs \ {i1}
        i2 == IF rest = {} THEN Len(v) + 1
              ELSE CHOOSE i \in rest : \A j \in rest : i <= j
    IN  IF eqs = {} THEN <<>> ELSE SubSeq(v, i1 + 1, i2 - 1)

\* The text of a URI after its last '/'.
C28_UriBasename(uri) ==
    LET i == CHOOSE i \in C28_Places(uri, "/") : \A j \in C28_Places(uri, "/") : j <= i
    IN  SubSeq(uri, i + 1, Len(uri))

C28_Joined(c, name) == entry[c].given["path"] \o <<"/">> \o name

C28_NameOf(c, req) ==
    IF C28_Explicit(c) THEN entry[c].given["filename"].text
    ELSE IF C28_Places(C28_Disposition(req), "filename") # {}
    THEN C28_AfterEquals(C28_Disposition(req))
    ELSE C28_UriBasename(req.uri)

C28_NoName(c, req) ==
    /\ ~ C28_Explicit(c)
    /\ C28_Places(C28_Disposition(req), "filename") # {}
    /\ C28_Places(C28_Disposition(req), "=") = {}

C29_BodyOnly(c) ==
    IF Has(entry[c].given, "bodyOnly") THEN entry[c].given["bodyOnly"]
    ELSE entry[c].this.bodyOnly

C29_Body(req, options) ==
    IF options["parse"] THEN parseResponseBody(req.res.headers, req.sent)
    ELSE StringValue(Concat(req.sent))

\* C29: in the version with bodyOnly, a call that succeeds hands over the
\* body of the response alone when the bodyOnly in force is true and an
\* object of the status code, the headers and the body when it is false;
\* the bodyOnly of the instance is true unless the client changed it, and
\* the one of the call's options goes before it.
C29_BodyAloneOrResponse ==
    \A c \in AllCalls : \A i \in DOMAIN cbLog[c] :
        cbLog[c][i].err = Null =>
            LET req == hops[c][cbLog[c][i].hop]
                body == C29_Body(req, Options(c))
            IN  cbLog[c][i].res =
                    IF C29_BodyOnly(c) THEN body
                    ELSE Response(req.res.statusCode, req.res.headers, body)

\* A promise resolved with the whole response, by a call with bodyOnly false
\* on an instance with bodyOnly true.
C29_Witness ==
    \E c \in AllCalls :
        /\ entry[c].returns = "promise"
        /\ entry[c].this = BodyOnlyWebReq
        /\ Has(entry[c].given, "bodyOnly")
        /\ entry[c].given["bodyOnly"] = FALSE
        /\ Promise(cbLog[c]).state = "resolved"
        /\ Promise(cbLog[c]).res =
              Response(200, [x \in {"content-type"} |-> JsonCT], JsonValue(<<"{", "}">>))

\* C30: after configureGlobalAgent, maxSockets and maxFreeSockets of the
\* global agents of http and of https are those of the argument, and a
\* setting the argument does not have (or every setting, without an
\* argument) is on both agents what it was before the call.
C30_Settings == {"maxSockets", "maxFreeSockets"}

C31_Fields ==
    {"method", "headers", "body", "parse", "stream", "followRedirects",
     "maxRedirects", "path", "proxy"}

\* C31: from the start of a call on, method, headers, body, parse, stream,
\* followRedirects, maxRedirects, path and proxy of its options are what
\* request() made them before the first transport request was built.
C31_OnlyCounterChanges ==
    \A c \in AllCalls :
        Started(c) =>
            \A k \in C31_Fields :
                /\ Has(Options(c), k) <=> Has(entry[c].normalized, k)
                /\ Has(Options(c), k) => Options(c)[k] = entry[c].normalized[k]

\* C32: the start of a call leaves the redirect counter of every call that
\* is under way as it is, also when the two calls were passed the same
\* options object.
C32_StartLeavesCounters ==
    [][\A c \in AllCalls :
          (Started(c) /\ todo' # todo) =>
              heap'[call[c]]["redirects"] = heap[call[c]]["redirects"]]_vars

\* C33: the options object a caller passed to request() or to a verb
\* wrapper is, after the call has started, what it was when it was passed.
C33_CallerObjectUnchanged ==
    \A c \in AllCalls :
        (Started(c) /\ entry[c].second = "object") =>
            Options(c) = entry[c].given

\* The value of a member in force for a call: the one of its options when
\* they have it, the one the instance had when the call started otherwise.
C34_InForce(c, k) ==
    IF Has(entry[c].given, k) THEN entry[c].given[k] ELSE entry[c].this[k]

\* C34: whatever is assigned to parse, stream, followRedirects and
\* maxRedirects of the instance while a call is under way, the call keeps
\* the values in force when it started: in its options, in what it follows
\* and how often, and in the body it delivers.
C34_StartValuesInForce ==
    \A c \in AllCalls :
        Started(c) =>
            /\ \A k \in {"parse", "stream", "followRedirects", "maxRedirects"} :
                  Options(c)[k] = C34_InForce(c, k)
            /\ Len(hops[c]) > 1 => C34_InForce(c, "followRedirects")
            /\ Len(hops[c]) <= C34_InForce(c, "maxRedirects") + 1
            /\ \A i \in DOMAIN cbLog[c] :
                  cbLog[c][i].err = Null =>
                     LET req == hops[c][cbLog[c][i].hop]
                     IN  cbLog[c][i].res.body =
                            IF C34_InForce(c, "stream") THEN LiveBody
                            ELSE IF req.handler = "file" THEN NullBody
                            ELSE IF C34_InForce(c, "parse")
                            THEN parseResponseBody(req.res.headers, req.sent)
                            ELSE StringValue(Concat(req.sent))

\* A call that followed a redirect and is reading the response to parse it,
\* on an instance whose members have since been set the other way.
C34_Witness ==
    \E c \in AllCalls :
        /\ Len(hops[c]) = 2
        /\ cbLog[c] = <<>>
        /\ hops[c][2].handler = "buffer"
        /\ hops[c][2].sent # <<>>
        /\ ~ Has(entry[c].given, "parse")
        /\ entry[c].this.parse /\ entry[c].this.followRedirects
        /\ ~ inst.parse /\ ~ inst.followRedirects
        /\ Options(c)["parse"]

\* The transport requests of a call that are awaiting their response.
C35_Awaiting(c) ==
    {h \in DOMAIN hops[c] : ~ hops[c][h].responded /\ hops[c][h].error = Null}

\* C35: at most one transport request of a call awaits its response; every
\* request but the last has had its response, was followed, and the request
\* after it went to the location that response named.
C35_OneHopAtATime ==
    \A c \in AllCalls :
        /\ Cardinality(C35_Awaiting(c)) <= 1
        /\ C35_Awaiting(c) \subseteq {Len(hops[c])}
        /\ \A h \in 1..(Len(hops[c]) - 1) :
              /\ hops[c][h].responded
              /\ hops[c][h].handler = "redirect"
              /\ Has(hops[c][h].res.headers, "location")
              /\ hops[c][h + 1].uri = hops[c][h].res.headers["location"]

\* The third request of a chain awaiting its response, the two before it
\* answered.
C35_Witness ==
    \E c \in AllCalls :
        /\ Len(hops[c]) = 3
        /\ C35_Awaiting(c) = {3}
        /\ hops[c][1].responded /\ hops[c][2].responded

\* C36: with parse true, the JSON bytes of a response whose Content-Type
\* is application/json before its first ';', whatever its capitalisation
\* and the whitespace in it, are delivered decoded.
C36_NormalizedMimeDecoded ==
    \A c \in AllCalls : \A i \in DOMAIN cbLog[c] :
        LET req == hops[c][cbLog[c][i].hop]
        IN  /\ cbLog[c][i].err = Null
            /\ req.handler = "buffer"
            /\ Options(c)["parse"] = TRUE
            /\ C19_DeclaresJson(req.res.headers)
            /\ IsJSON(Concat(req.sent))
            => cbLog[c][i].res.body = JsonValue(Concat(req.sent))

C38_Target == {"host", "port", "path", "method", "headers"}

\* The options of a call without their certificate.
C38_WithoutCertificate(options) ==
    [k \in DOMAIN options \ {"certificate"} |-> options[k]]

\* C38: host, port, path, method and headers of the parameters of every
\* request are those built from its URI and the options without the
\* certificate, whatever keys the certificate has.
C38_CertificateLeavesTarget ==
    \A c \in AllCalls : \A h \in DOMAIN hops[c] :
        LET params == hops[c][h].params
            plain == createRequestOptions(UrlParse(hops[c][h].uri),
                                          C38_WithoutCertificate(Options(c)))
        IN  \A k \in C38_Target :
                /\ Has(params, k) <=> Has(plain, k)
                /\ Has(params, k) => params[k] = plain[k]
====
